---- MODULE Spec2Model ----
(***************************************************************************)
(* Lineup assignment and recommendation engine of fantasyzer               *)
(* (src/fantasy_draft_tool.py): name normalisation, identity resolution,   *)
(* slot allocation (analyze_weekly_rankings), the optimal lineup with free *)
(* agents (analyze_optimal_lineup_with_free_agents) and the rest-of-season *)
(* recommender (analyze_ros_recommendations).                              *)
(*                                                                         *)
(* Python strings are modelled as sequences of one-character atoms, so     *)
(* that normalisation and similarity scoring are computed, not assumed.    *)
(* An accented letter is the atom "<letter>+acute"; its NFKD decomposition *)
(* is the base letter followed by the combining mark "+acute".             *)
(***************************************************************************)
EXTENDS Integers, Sequences, FiniteSets, TLC

\* ------------------------------------------------------------------------
\* Generic sequence helpers
\* ------------------------------------------------------------------------

Range(s) == {s[i] : i \in DOMAIN s}

RECURSIVE FilterSeq(_, _)
\* [x for x in s if Keep[x]] with Keep given as a set of kept elements
FilterSeq(s, keep) ==
    IF s = <<>> THEN <<>>
    ELSE IF Head(s) \in keep THEN <<Head(s)>> \o FilterSeq(Tail(s), keep)
    ELSE FilterSeq(Tail(s), keep)

RECURSIVE RemoveFirst(_, _)
\* list.remove(x): drops the first element equal to x
RemoveFirst(s, x) ==
    IF s = <<>> THEN <<>>
    ELSE IF Head(s) = x THEN Tail(s)
    ELSE <<Head(s)>> \o RemoveFirst(Tail(s), x)

RECURSIVE Flatten(_)
Flatten(ss) == IF ss = <<>> THEN <<>> ELSE Head(ss) \o Flatten(Tail(ss))

Min2(a, b) == IF a <= b THEN a ELSE b

\* ------------------------------------------------------------------------
\* Characters
\* ------------------------------------------------------------------------

LowerSeq == <<"a","b","c","d","e","f","g","h","i","j","k","l","m",
              "n","o","p","q","r","s","t","u","v","w","x","y","z">>
UpperSeq == <<"A","B","C","D","E","F","G","H","I","J","K","L","M",
              "N","O","P","Q","R","S","T","U","V","W","X","Y","Z">>
DigitSeq == <<"0","1","2","3","4","5","6","7","8","9">>

LowerChars == Range(LowerSeq)
UpperChars == Range(UpperSeq)
DigitChars == Range(DigitSeq)
SpaceChars == {" "}
\* accented letters present in the name catalogue
AccentedLower == {"e+acute"}
AccentedUpper == {"E+acute"}

\* code-point order of the characters that survive processing
CharOrder == <<" ">> \o DigitSeq \o UpperSeq \o LowerSeq

CharIndex(c) ==
    IF \E i \in DOMAIN CharOrder : CharOrder[i] = c
    THEN CHOOSE i \in DOMAIN CharOrder : CharOrder[i] = c
    ELSE Len(CharOrder) + 1

\* str.lower() on one character
LowerChar(c) ==
    IF c \in UpperChars
    THEN LowerSeq[CHOOSE i \in DOMAIN UpperSeq : UpperSeq[i] = c]
    ELSE IF c = "E+acute" THEN "e+acute"
    ELSE c

\* unicodedata.normalize("NFKD", .) on one character: base letter + mark
NFKDChar(c) ==
    IF c = "e+acute" THEN <<"e", "+acute">>
    ELSE IF c = "E+acute" THEN <<"E", "+acute">>
    ELSE <<c>>

\* unicodedata.combining(c) != 0
IsCombining(c) == c = "+acute"

RECURSIVE MapLower(_)
MapLower(s) ==
    IF s = <<>> THEN <<>> ELSE <<LowerChar(Head(s))>> \o MapLower(Tail(s))

RECURSIVE MapNFKD(_)
MapNFKD(s) ==
    IF s = <<>> THEN <<>> ELSE NFKDChar(Head(s)) \o MapNFKD(Tail(s))

RECURSIVE DropCombining(_)
DropCombining(s) ==
    IF s = <<>> THEN <<>>
    ELSE IF IsCombining(Head(s)) THEN DropCombining(Tail(s))
    ELSE <<Head(s)>> \o DropCombining(Tail(s))

RECURSIVE SubChars(_, _)
\* re.sub of every character outside `keep` by one space
SubChars(s, keep) ==
    IF s = <<>> THEN <<>>
    ELSE <<IF Head(s) \in keep THEN Head(s) ELSE " ">> \o SubChars(Tail(s), keep)

RECURSIVE SplitWs(_, _)
\* str.split(): the maximal runs of non-space characters (cur = run so far)
SplitWs(s, cur) ==
    IF s = <<>> THEN (IF cur = <<>> THEN <<>> ELSE <<cur>>)
    ELSE IF Head(s) \in SpaceChars
         THEN (IF cur = <<>> THEN <<>> ELSE <<cur>>) \o SplitWs(Tail(s), <<>>)
         ELSE SplitWs(Tail(s), Append(cur, Head(s)))

Split(s) == SplitWs(s, <<>>)

RECURSIVE JoinSp(_)
\* " ".join(tokens)
JoinSp(toks) ==
    IF toks = <<>> THEN <<>>
    ELSE IF Len(toks) = 1 THEN Head(toks)
    ELSE Head(toks) \o <<" ">> \o JoinSp(Tail(toks))

\* ------------------------------------------------------------------------
\* FantasyDraftTool._normalize_name
\* ------------------------------------------------------------------------

\* the alternatives of the suffix pattern \b(jr|sr|ii|iii|iv|v)\b
SuffixTokens == { <<"j","r">>, <<"s","r">>, <<"i","i">>, <<"i","i","i">>,
                  <<"i","v">>, <<"v">> }

RECURSIVE DropSuffixTokens(_)
\* After the punctuation pass only [a-z0-9] and spaces remain, so a \b...\b
\* match of the suffix pattern is exactly a whole space-delimited token.
DropSuffixTokens(toks) ==
    IF toks = <<>> THEN <<>>
    ELSE IF Head(toks) \in SuffixTokens THEN DropSuffixTokens(Tail(toks))
    ELSE <<Head(toks)>> \o DropSuffixTokens(Tail(toks))

\* the tokens without their last one, if that is a suffix word
DropLastSuffixToken(toks) ==
    IF toks # <<>> /\ toks[Len(toks)] \in SuffixTokens
    THEN SubSeq(toks, 1, Len(toks) - 1)
    ELSE toks

\* The normalizer, were a suffix word removed at the end of the name only
normalize_name_end(name) ==
    IF name = <<>> THEN <<>>
    ELSE JoinSp(DropLastSuffixToken(Split(
             SubChars(DropCombining(MapNFKD(MapLower(name))),
                      LowerChars \cup DigitChars \cup SpaceChars))))

normalize_name(name) ==
    IF name = <<>> THEN <<>>
    ELSE LET name_low == DropCombining(MapNFKD(MapLower(name)))
             cleaned  == SubChars(name_low, LowerChars \cup DigitChars \cup SpaceChars)
         IN  JoinSp(DropSuffixTokens(Split(cleaned)))

\* ------------------------------------------------------------------------
\* fuzzywuzzy (third-party scorer used by the resolvers): fuzz.ratio,
\* fuzz.token_sort_ratio and process.extractOne, with the pure-python
\* difflib.SequenceMatcher backend.
\* ------------------------------------------------------------------------

RECURSIVE CommonPrefixLen(_, _, _, _, _, _)
\* length of the longest k with a[i+1..i+k] = b[j+1..j+k] inside the windows
\* (0-based half-open windows [i, ahi) and [j, bhi), as in difflib)
CommonPrefixLen(a, i, ahi, b, j, bhi) ==
    IF i >= ahi \/ j >= bhi \/ a[i + 1] # b[j + 1] THEN 0
    ELSE 1 + CommonPrefixLen(a, i + 1, ahi, b, j + 1, bhi)

\* the common block <<i, j, size>> that starts at each pair of positions
Blocks(a, alo, ahi, b, blo, bhi) ==
    { <<i, j, CommonPrefixLen(a, i, ahi, b, j, bhi)>> :
        i \in alo..(ahi - 1), j \in blo..(bhi - 1) }

\* the longest block, of those the one starting earliest in a, of those the
\* one starting earliest in b; `none` when no characters are in common
LongestBlock(blocks, none) ==
    IF \A t \in blocks : t[3] = 0 THEN none
    ELSE CHOOSE t \in blocks : \A u \in blocks :
            \/ u[3] < t[3]
            \/ u[3] = t[3] /\ t[1] < u[1]
            \/ u[3] = t[3] /\ t[1] = u[1] /\ t[2] <= u[2]

\* SequenceMatcher.find_longest_match
find_longest_match(a, alo, ahi, b, blo, bhi) ==
    LongestBlock(Blocks(a, alo, ahi, b, blo, bhi), <<alo, blo, 0>>)

RECURSIVE MatchingSize(_, _, _, _, _, _)
RECURSIVE MatchingAround(_, _, _, _, _, _, _)
\* sum of the sizes of SequenceMatcher.get_matching_blocks(): the longest
\* block m, then the blocks to its left and to its right
MatchingAround(a, alo, ahi, b, blo, bhi, m) ==
    IF m[3] = 0 THEN 0
    ELSE m[3] + MatchingSize(a, alo, m[1], b, blo, m[2])
              + MatchingSize(a, m[1] + m[3], ahi, b, m[2] + m[3], bhi)

MatchingSize(a, alo, ahi, b, blo, bhi) ==
    IF alo >= ahi \/ blo >= bhi THEN 0
    ELSE MatchingAround(a, alo, ahi, b, blo, bhi,
                        find_longest_match(a, alo, ahi, b, blo, bhi))

\* int(round(num / den)) with Python's round-half-to-even
RoundDiv(num, den) ==
    IF 2 * (num % den) > den THEN (num \div den) + 1
    ELSE IF 2 * (num % den) < den THEN num \div den
    ELSE IF (num \div den) % 2 = 0 THEN num \div den
    ELSE (num \div den) + 1

\* fuzz.ratio: 100 for equal strings, 0 when one is empty, else
\* intr(100 * 2M / T)
ratio(s1, s2) ==
    IF s1 = s2 THEN 100
    ELSE IF Len(s1) = 0 \/ Len(s2) = 0 THEN 0
    ELSE RoundDiv(200 * MatchingSize(s1, 0, Len(s1), s2, 0, Len(s2)),
                  Len(s1) + Len(s2))

RECURSIVE DropNonAscii(_)
\* utils.asciidammit: characters outside ASCII are deleted
DropNonAscii(s) ==
    IF s = <<>> THEN <<>>
    ELSE IF Head(s) \in AccentedLower \cup AccentedUpper
         THEN DropNonAscii(Tail(s))
         ELSE <<Head(s)>> \o DropNonAscii(Tail(s))

RECURSIVE StripLeft(_)
StripLeft(s) ==
    IF s # <<>> /\ Head(s) \in SpaceChars THEN StripLeft(Tail(s)) ELSE s

RECURSIVE StripRight(_)
StripRight(s) ==
    IF s # <<>> /\ s[Len(s)] \in SpaceChars
    THEN StripRight(SubSeq(s, 1, Len(s) - 1)) ELSE s

\* str.strip()
Strip(s) == StripRight(StripLeft(s))

\* utils.full_process(s, force_ascii=True)
full_process(s) ==
    Strip(MapLower(SubChars(DropNonAscii(s),
                            LowerChars \cup UpperChars \cup DigitChars)))

RECURSIVE LexLess(_, _)
\* Python's str < str
LexLess(a, b) ==
    IF a = <<>> THEN b # <<>>
    ELSE IF b = <<>> THEN FALSE
    ELSE IF Head(a) = Head(b) THEN LexLess(Tail(a), Tail(b))
    ELSE CharIndex(Head(a)) < CharIndex(Head(b))

RECURSIVE InsertSorted(_, _)
InsertSorted(sorted, t) ==
    IF sorted = <<>> THEN <<t>>
    ELSE IF LexLess(t, Head(sorted)) THEN <<t>> \o sorted
    ELSE <<Head(sorted)>> \o InsertSorted(Tail(sorted), t)

RECURSIVE SortTokens(_)
\* sorted(tokens)
SortTokens(toks) ==
    IF toks = <<>> THEN <<>>
    ELSE InsertSorted(SortTokens(SubSeq(toks, 1, Len(toks) - 1)), toks[Len(toks)])

\* fuzz._process_and_sort(s, force_ascii=True, full_process=True)
process_and_sort(s) == Strip(JoinSp(SortTokens(Split(full_process(s)))))

\* fuzz.token_sort_ratio
token_sort_ratio(s1, s2) == ratio(process_and_sort(s1), process_and_sort(s2))

\* s.split()[0] if s.split() else ""
FirstToken(s) == Head(Split(s) \o << <<>> >>)

\* ------------------------------------------------------------------------
\* String values.  A Python string is held in the state by a handle (the
\* TLA+ string spelling it); Text gives its characters.  Text is injective,
\* so equality of handles is equality of strings.
\* ------------------------------------------------------------------------

Text ==
    "Al Po" :> <<"A","l"," ","P","o">> @@
    "al po" :> <<"a","l"," ","p","o">> @@
    "Gus Qi" :> <<"G","u","s"," ","Q","i">> @@
    "Bo Ra" :> <<"B","o"," ","R","a">> @@
    "Cy Ra" :> <<"C","y"," ","R","a">> @@
    "Cy Ra Jr." :> <<"C","y"," ","R","a"," ","J","r",".">> @@
    "Hu Ra" :> <<"H","u"," ","R","a">> @@
    "Di Wu" :> <<"D","i"," ","W","u">> @@
    "Ed Wu" :> <<"E","d"," ","W","u">> @@
    "Wim Wu" :> <<"W","i","m"," ","W","u">> @@
    "Fy Te" :> <<"F","y"," ","T","e">> @@
    "Jo Harrison" :> <<"J","o"," ","H","a","r","r","i","s","o","n">> @@
    "Jo Harrisons" :> <<"J","o"," ","H","a","r","r","i","s","o","n","s">> @@
    "Zed Ix" :> <<"Z","e","d"," ","I","x">> @@
    "Ki Ko" :> <<"K","i"," ","K","o">> @@
    "Ka Ko" :> <<"K","a"," ","K","o">> @@
    "ki ko" :> <<"k","i"," ","k","o">> @@
    "Al Po Jr." :> <<"A","l"," ","P","o"," ","J","r",".">> @@
    "AlPo" :> <<"A","l","P","o">> @@
    "alpo" :> <<"a","l","p","o">> @@
    "Ab Smith" :> <<"A","b"," ","S","m","i","t","h">> @@
    "Cd Smith" :> <<"C","d"," ","S","m","i","t","h">> @@
    "Ef Smith" :> <<"E","f"," ","S","m","i","t","h">> @@
    "Zed Smith" :> <<"Z","e","d"," ","S","m","i","t","h">> @@
    "Smith" :> <<"S","m","i","t","h">> @@
    "Ra" :> <<"R","a">> @@
    "Po" :> <<"P","o">> @@
    "Al" :> <<"A","l">> @@
    "Ab" :> <<"A","b">> @@
    "Cd" :> <<"C","d">> @@
    "Ef" :> <<"E","f">> @@
    "Bo" :> <<"B","o">> @@
    "Cy" :> <<"C","y">> @@
    "Hu" :> <<"H","u">> @@
    "Jo Harris" :> <<"J","o"," ","H","a","r","r","i","s">> @@
    "Jo Harri" :> <<"J","o"," ","H","a","r","r","i">> @@
    "Jo Harriss" :> <<"J","o"," ","H","a","r","r","i","s","s">> @@
    "Abcdefghijklm Opqrstuvwxyzabcdefghijk" :> <<"A","b","c","d","e","f","g","h","i","j","k","l","m"," ","O","p","q","r","s","t","u","v","w","x","y","z","a","b","c","d","e","f","g","h","i","j","k">> @@
    "Abcdefghijkno Opqrstuvwxyzabcdefghijk" :> <<"A","b","c","d","e","f","g","h","i","j","k","n","o"," ","O","p","q","r","s","t","u","v","w","x","y","z","a","b","c","d","e","f","g","h","i","j","k">> @@
    "Abcdefghi Opqrstuvwxyzabcde" :> <<"A","b","c","d","e","f","g","h","i"," ","O","p","q","r","s","t","u","v","w","x","y","z","a","b","c","d","e">> @@
    "Abcdefghxy Opqrstuvwxyzabcde" :> <<"A","b","c","d","e","f","g","h","x","y"," ","O","p","q","r","s","t","u","v","w","x","y","z","a","b","c","d","e">> @@
    "FA" :> <<"F","A">> @@
    "dal" :> <<"d","a","l">> @@
    "Denver" :> <<"D","e","n","v","e","r">> @@
    "Dallas" :> <<"D","a","l","l","a","s">> @@
    "Miami" :> <<"M","i","a","m","i">> @@
    "DEN" :> <<"D","E","N">> @@
    "DAL" :> <<"D","A","L">> @@
    "MIA" :> <<"M","I","A">> @@
    "" :> <<>> @@
    "QB" :> <<"Q","B">> @@
    "RB" :> <<"R","B">> @@
    "WR" :> <<"W","R">> @@
    "TE" :> <<"T","E">> @@
    "K" :> <<"K">> @@
    "DST" :> <<"D","S","T">> @@
    "DEF" :> <<"D","E","F">> @@
    "QB1" :> <<"Q","B","1">> @@
    "QB2" :> <<"Q","B","2">> @@
    "QB3" :> <<"Q","B","3">> @@
    "RB1" :> <<"R","B","1">> @@
    "RB2" :> <<"R","B","2">> @@
    "RB3" :> <<"R","B","3">> @@
    "WR1" :> <<"W","R","1">> @@
    "WR2" :> <<"W","R","2">> @@
    "WR3" :> <<"W","R","3">> @@
    "TE1" :> <<"T","E","1">> @@
    "TE2" :> <<"T","E","2">>

\* the handle of a character sequence in a table of strings
InternIn(table, chars) == CHOOSE h \in DOMAIN table : table[h] = chars

Intern(chars) == InternIn(Text, chars)

\* None, for optional string-valued fields
None == "None"

\* FantasyDraftTool._normalize_name of every held string
normalized_names == [h \in DOMAIN Text |-> normalize_name(Text[h])]

\* FantasyDraftTool._normalize_name on a held string
Normalized(h) == normalized_names[h]

\* the strings that fuzz.ratio is called on: the normalized names and their
\* first tokens
ComparedStrings ==
    { normalized_names[h] : h \in DOMAIN Text }
    \cup { FirstToken(normalized_names[h]) : h \in DOMAIN Text }

\* fuzz.ratio of every two of these strings
ratios == [s1 \in ComparedStrings |-> [s2 \in ComparedStrings |-> ratio(s1, s2)]]

\* fuzz.token_sort_ratio of every two held strings
token_sort_ratios ==
    [a \in DOMAIN Text |-> [b \in DOMAIN Text |->
        token_sort_ratio(Text[a], Text[b])]]

\* str.strip() on a held string
Stripped(h) == Intern(Strip(Text[h]))

RECURSIVE PrefixBeforeDigit(_)
PrefixBeforeDigit(cs) ==
    IF cs = <<>> \/ Head(cs) \in DigitChars THEN <<>>
    ELSE <<Head(cs)>> \o PrefixBeforeDigit(Tail(cs))

\* "Extract base position from position with rank" ("WR2" -> "WR"): when
\* the first character is a letter, the text before the first digit
BasePosition(cs) ==
    IF /\ cs # <<>>
       /\ Head(cs) \in LowerChars \cup UpperChars
       /\ \E i \in DOMAIN cs : cs[i] \in DigitChars
    THEN PrefixBeforeDigit(cs)
    ELSE cs

base_position_of(position_with_rank) ==
    Intern(BasePosition(Text[position_with_rank]))

\* ------------------------------------------------------------------------
\* Inputs and state
\* ------------------------------------------------------------------------

VARIABLES
    \* inputs of the analysis call
    op_rankings,            \* weekly_rankings['OP']: rows [name, pos]
    dst_rankings,           \* weekly_rankings['DST']: rows [name, team]
    k_rankings,             \* weekly_rankings['K']: rows [name, team]
    user_players,           \* the user's roster: sequence of player ids
    all_league_players,     \* every roster of the league: sequence of ids
    roster_settings,        \* ordered mapping: sequence of <<slot, count>>
    arg_types,              \* the Python type of each collection argument
    \* locals of analyze_weekly_rankings / analyze_optimal_lineup_with_free_agents
    user_offensive_players,
    starters,
    sorted_starters,
    bench,
    all_flex_players,
    wrrbte_flex_players,
    wrrb_flex_players,
    analysis,               \* the result of analyze_weekly_rankings
    all_available_players,
    optimal_starters,
    result,                 \* the result of analyze_optimal_lineup_with_free_agents
    \* analyze_ros_recommendations: its ranking argument, locals and result
    ros_rankings,
    user_ros_players,
    free_agents,
    recommendations,
    \* match_players: self.players, the position of its loop over them, and
    \* its counters
    self_players,
    fp_index,
    matched_count,
    unmatched_players,
    \* _normalize_name: its argument and what it returns
    name_arg,
    name_out,
    pc

inputs == <<op_rankings, dst_rankings, k_rankings, user_players,
            all_league_players, roster_settings, arg_types>>
weekly_locals == <<user_offensive_players, sorted_starters>>
flex_lists == <<all_flex_players, wrrbte_flex_players, wrrb_flex_players>>
optimal_locals == <<all_available_players, optimal_starters, result>>
ros_vars == <<ros_rankings, user_ros_players, free_agents, recommendations>>
resolver_vars == <<self_players, fp_index, matched_count, unmatched_players>>
normalizer_vars == <<name_arg, name_out>>
tool_vars == <<resolver_vars, normalizer_vars>>
vars == <<inputs, weekly_locals, starters, bench, flex_lists, analysis,
          optimal_locals, ros_vars, tool_vars, pc>>

\* The canonical player directory (sleeper_players), in dictionary order.
\* An entry has its full name, position and team; some entries also carry
\* first_name, last_name and search_full_name (None when absent).  Al Po and
\* Al Po Jr. share a normalized name; two RBs named Smith share a team; the
\* TE entries 81 to 83 are names at the boundaries of the fuzzy thresholds.
sleeper_ids == <<"11", "12", "13", "21", "22", "23", "31", "32", "33",
                 "41", "42", "51", "52", "61", "62",
                 "71", "72", "73", "81", "82", "83">>

DirectoryEntry(full_name, position, team, first_name, last_name, search_full_name) ==
    [full_name |-> full_name, position |-> position, team |-> team,
     first_name |-> first_name, last_name |-> last_name,
     search_full_name |-> search_full_name]

sleeper_players ==
    "11" :> DirectoryEntry("Al Po", "QB", "DEN", "Al", "Po", "alpo") @@
    "12" :> DirectoryEntry("Gus Qi", "QB", "DAL", None, None, None) @@
    "13" :> DirectoryEntry("Al Po Jr.", "QB", "DAL", None, None, None) @@
    "21" :> DirectoryEntry("Bo Ra", "RB", "DEN", "Bo", "Ra", None) @@
    "22" :> DirectoryEntry("Cy Ra Jr.", "RB", "DAL", "Cy", "Ra", None) @@
    "23" :> DirectoryEntry("Hu Ra", "RB", "MIA", "Hu", "Ra", None) @@
    "31" :> DirectoryEntry("Di Wu", "WR", "DEN", None, None, None) @@
    "32" :> DirectoryEntry("Ed Wu", "WR", "DAL", None, None, None) @@
    "33" :> DirectoryEntry("Wim Wu", "WR", "MIA", None, None, None) @@
    "41" :> DirectoryEntry("Fy Te", "TE", "DEN", None, None, None) @@
    "42" :> DirectoryEntry("Jo Harrison", "TE", "MIA", None, None, None) @@
    "51" :> DirectoryEntry("Ki Ko", "K", "DEN", None, None, None) @@
    "52" :> DirectoryEntry("Ka Ko", "K", "DAL", None, None, None) @@
    "61" :> DirectoryEntry("Denver", "DEF", "DEN", None, None, None) @@
    "62" :> DirectoryEntry("Dallas", "DEF", "DAL", None, None, None) @@
    "71" :> DirectoryEntry("Ab Smith", "RB", "MIA", "Ab", "Smith", None) @@
    "72" :> DirectoryEntry("Cd Smith", "RB", "MIA", "Cd", "Smith", None) @@
    "73" :> DirectoryEntry("Ef Smith", "WR", "DAL", "Ef", "Smith", None) @@
    "81" :> DirectoryEntry("Abcdefghijklm Opqrstuvwxyzabcdefghijk", "TE", "DAL", None, None, None) @@
    "82" :> DirectoryEntry("Abcdefghi Opqrstuvwxyzabcde", "TE", "DAL", None, None, None) @@
    "83" :> DirectoryEntry("Jo Harris", "TE", "DAL", None, None, None)

\* the collection arguments as a caller is meant to pass them
WellTyped ==
    [weekly_rankings |-> "dict", user_players |-> "list",
     sleeper_players |-> "dict", roster_settings |-> "dict",
     all_league_players |-> "list"]

\* a roster entry that has no key player_id: {}
Lacking == "(no player_id)"

\* the lookup in the directory as it was passed, of whatever type
InDirectoryUnvalidated(player_id) == player_id \in DOMAIN sleeper_players

\* sleeper_players.get(player_id) is not None, sleeper_players being {}
\* when the argument is not a dict (lines 829-831); an entry without
\* player_id is looked up as '' (line 878)
InDirectory(player_id) ==
    arg_types.sleeper_players = "dict" /\ player_id \in DOMAIN sleeper_players

\* dict.get(key, 0) on the ordered mapping roster_settings
SettingsGet(settings, key) ==
    IF \E i \in DOMAIN settings : settings[i][1] = key
    THEN settings[CHOOSE i \in DOMAIN settings : settings[i][1] = key][2]
    ELSE 0

\* A player entry (the dictionaries appended to the player lists).  Optional
\* keys are present in every record, with the value dict.get would default
\* to: flex_slot None, is_free_agent FALSE, is_waiver_wire FALSE;
\* replaces_player is <<>> when absent and <<drop>> when set.  The display
\* key position_with_rank is not carried.
Entry(name, position, rank, team, sleeper_id, is_on_roster, is_free_agent) ==
    [name |-> name, position |-> position, rank |-> rank, team |-> team,
     sleeper_id |-> sleeper_id, is_on_roster |-> is_on_roster,
     is_free_agent |-> is_free_agent, flex_slot |-> None,
     is_waiver_wire |-> FALSE, replaces_player |-> <<>>]

RECURSIVE InsertByRank(_, _)
InsertByRank(sorted, e) ==
    IF sorted = <<>> THEN <<e>>
    ELSE IF e.rank < Head(sorted).rank THEN <<e>> \o sorted
    ELSE <<Head(sorted)>> \o InsertByRank(Tail(sorted), e)

RECURSIVE SortByRank(_)
\* list.sort(key=lambda x: x['rank']): stable, ascending
SortByRank(s) ==
    IF s = <<>> THEN <<>>
    ELSE InsertByRank(SortByRank(SubSeq(s, 1, Len(s) - 1)), s[Len(s)])

\* ------------------------------------------------------------------------
\* analyze_weekly_rankings: resolution of the ranked entries
\* ------------------------------------------------------------------------

\* "Very high confidence threshold" of the fuzzy match
FuzzyThreshold == 95
\* "First names must be very similar"
FirstNameThreshold == 85
\* "Top 5 overall" of the combined waiver lists
WaiverTop == 5

\* a list element that is not a non-empty mapping (None, a string, {})
NotARow == [name |-> None, pos |-> None, team |-> None]

\* isinstance(ranking, dict) and ranking
IsRow(ranking) == ranking # NotARow

\* the index of the first element of seq that is in ok, or 0
FirstIndexOrZero(seq, ok) ==
    IF \E i \in DOMAIN seq : seq[i] \in ok
    THEN CHOOSE i \in DOMAIN seq :
             seq[i] \in ok /\ \A j \in 1..(i - 1) : seq[j] \notin ok
    ELSE 0

\* seq[i], or None when i is 0
AtOrNone(seq, i) == IF i = 0 THEN None ELSE seq[i]

\* exact, then normalized match of one roster player (lines 877-910)
ExactOrNormalized(player_id, player_name) ==
    /\ InDirectory(player_id)
    /\ \/ sleeper_players[player_id].full_name = player_name
       \/ Normalized(player_name) = Normalized(sleeper_players[player_id].full_name)

\* (sleeper_name, player_id) of a list of player ids
CandidatePairs(ids) ==
    [k \in DOMAIN ids |-> <<sleeper_players[ids[k]].full_name, ids[k]>>]

\* roster_candidates: the roster players with a name, in roster order
RosterCandidates(players) ==
    CandidatePairs(FilterSeq(players,
        { id \in Range(players) :
            InDirectory(id) /\ sleeper_players[id].full_name # "" }))

\* the first index of the highest score
BestIndex(scores) ==
    CHOOSE i \in DOMAIN scores :
        /\ \A j \in DOMAIN scores : scores[j] <= scores[i]
        /\ \A j \in 1..(i - 1) : scores[j] < scores[i]

\* <<name, score>> of the best of the scored candidates
BestScored(candidates, scores, best) == <<candidates[best][1], scores[best]>>

FirstBestScored(candidates, scores) ==
    BestScored(candidates, scores, BestIndex(scores))

\* process.extractOne(query, names, scorer=fuzz.token_sort_ratio): the first
\* choice with the highest score, as <<name, score>>
ExtractOne(query, candidates) ==
    FirstBestScored(candidates,
        [i \in DOMAIN candidates |->
            token_sort_ratios[query][candidates[i][1]]])

\* "if fp_first and sleeper_first" and the score of the two first names
FirstNamesSimilar(fp_first, sleeper_first) ==
    /\ Len(fp_first) > 0
    /\ Len(sleeper_first) > 0
    /\ ratios[fp_first][sleeper_first] >= FirstNameThreshold

\* player_id of the first roster candidate with the matched name
IdOfName(roster_candidates, matched_name) ==
    roster_candidates[
        FirstIndexOrZero(roster_candidates,
                         { c \in Range(roster_candidates) : c[1] = matched_name })][2]

\* the validation of the best fuzzy match (lines 925-957): the id, or None
AcceptedMatch(roster_candidates, player_name, best_match) ==
    IF /\ best_match[2] >= FuzzyThreshold
       /\ FirstNamesSimilar(FirstToken(Normalized(player_name)),
                            FirstToken(Normalized(best_match[1])))
    THEN IdOfName(roster_candidates, best_match[1])
    ELSE None

FuzzyAmong(roster_candidates, player_name) ==
    IF roster_candidates = <<>> THEN None
    ELSE AcceptedMatch(roster_candidates, player_name,
                       ExtractOne(player_name, roster_candidates))

\* the fuzzy branch (lines 913-960): the player id, or None
FuzzyRosterMatch(players, player_name) ==
    FuzzyAmong(RosterCandidates(players), player_name)

\* the exact or normalized match at roster index i, else the fuzzy branch
MatchedOrFuzzy(players, player_name, i) ==
    IF i > 0 THEN players[i] ELSE FuzzyRosterMatch(players, player_name)

\* the roster player a ranked offensive name resolves to, or None
WeeklyMatch(players, player_name) ==
    MatchedOrFuzzy(players, player_name,
        FirstIndexOrZero(players,
            { id \in Range(players) : ExactOrNormalized(id, player_name) }))

\* the entry of a resolved row, as a list of zero or one entries
ResolvedEntry(player_name, base_position, rank, id) ==
    IF id = None THEN <<>>
    ELSE <<Entry(player_name, base_position, rank, sleeper_players[id].team,
                 id, TRUE, FALSE)>>

\* rows whose name or position is empty are skipped (lines 861-864)
NamedEntry(player_name, position_with_rank, rank, players) ==
    IF player_name = "" \/ position_with_rank = "" THEN <<>>
    ELSE ResolvedEntry(player_name, base_position_of(position_with_rank), rank,
                       WeeklyMatch(players, player_name))

\* one pass of the loop over op_rankings (lines 854-960)
OffensiveEntry(ranking, rank, players) ==
    IF ~IsRow(ranking) THEN <<>>
    ELSE NamedEntry(Stripped(ranking.name), Stripped(ranking.pos), rank, players)

RECURSIVE WeeklyOffense(_, _, _)
\* the loop over op_rankings, from row index i on
WeeklyOffense(rankings, players, i) ==
    IF i > Len(rankings) THEN <<>>
    ELSE OffensiveEntry(rankings[i], i, players)
         \o WeeklyOffense(rankings, players, i + 1)

W_Offense ==
    /\ pc = "start"
    /\ user_offensive_players' =
           SortByRank(WeeklyOffense(op_rankings, user_players, 1))
    /\ pc' = "w_defk"
    /\ UNCHANGED <<tool_vars, ros_vars, inputs, sorted_starters, starters, bench, flex_lists,
                   analysis, optimal_locals>>

\* ------------------------------------------------------------------------
\* analyze_weekly_rankings: defenses and kickers (lines 967-1131)
\* ------------------------------------------------------------------------

\* Python's `needle in haystack` on strings
Contains(haystack, needle) ==
    \E i \in 0..(Len(haystack) - Len(needle)) :
        SubSeq(haystack, i + 1, i + Len(needle)) = needle

\* "Try multiple matching strategies" on one directory entry
DefenseMatches(sleeper_player, team_name, team_abbrev) ==
    /\ sleeper_player.position = "DEF"
    /\ \/ sleeper_player.team = team_abbrev
       \/ sleeper_player.team = team_name
       \/ sleeper_player.full_name = team_name
       \/ Contains(Text[sleeper_player.full_name], Text[team_abbrev])
       \/ Contains(Text[sleeper_player.full_name], Text[team_name])

\* the defense test of the roster and league loops (lines 985-997, 1014-1026)
SameDefense(player_id, team_name, team_abbrev) ==
    /\ InDirectory(player_id)
    /\ DefenseMatches(sleeper_players[player_id], team_name, team_abbrev)

\* the kicker test on one directory entry
KickerMatches(sleeper_player, player_name) ==
    /\ sleeper_player.position = "K"
    /\ \/ sleeper_player.full_name = player_name
       \/ Normalized(player_name) = Normalized(sleeper_player.full_name)

\* the kicker test of the roster loop (lines 1061-1090)
SameKickerOnRoster(player_id, player_name) ==
    /\ InDirectory(player_id)
    /\ KickerMatches(sleeper_players[player_id], player_name)

\* the kicker test of the league loop (lines 1099-1106)
SameKickerInLeague(player_id, player_name) ==
    /\ InDirectory(player_id)
    /\ KickerMatches(sleeper_players[player_id], player_name)

\* <<roster entries, waiver entries>> of two such pairs
PairConcat(x, y) == <<x[1] \o y[1], x[2] \o y[2]>>

NoEntries == <<<<>>, <<>>>>

\* A ranked defense goes to the roster list when the user holds it, is
\* skipped when another roster of the league holds it, else is a free agent.
PlacedDefense(team_name, team_abbrev, rank, players, mine, owned) ==
    IF mine > 0
    THEN <<<<Entry(team_name, None, rank, team_abbrev, players[mine], TRUE, FALSE)>>,
           <<>>>>
    ELSE IF owned > 0 THEN NoEntries
    ELSE <<<<>>,
           <<Entry(team_name, None, rank, team_abbrev, None, FALSE, FALSE)>>>>

NamedDefense(team_name, team_abbrev, rank, players, league) ==
    IF team_name = "" THEN NoEntries
    ELSE PlacedDefense(team_name, team_abbrev, rank, players,
             FirstIndexOrZero(players,
                 { id \in Range(players) : SameDefense(id, team_name, team_abbrev) }),
             FirstIndexOrZero(league,
                 { id \in Range(league) : SameDefense(id, team_name, team_abbrev) }))

DefenseEntry(ranking, rank, players, league) ==
    IF ~IsRow(ranking) THEN NoEntries
    ELSE NamedDefense(Stripped(ranking.name), Stripped(ranking.team), rank,
                      players, league)

RECURSIVE WeeklyDefenses(_, _, _, _)
\* the loop over dst_rankings: <<analysis['defenses'], waiver defenses>>
WeeklyDefenses(rankings, players, league, i) ==
    IF i > Len(rankings) THEN NoEntries
    ELSE PairConcat(DefenseEntry(rankings[i], i, players, league),
                    WeeklyDefenses(rankings, players, league, i + 1))

\* A ranked kicker, placed like a defense; the roster entry takes the team
\* of the directory, the free agent the team of the ranking.
PlacedKicker(player_name, team_abbrev, rank, players, mine, owned) ==
    IF mine > 0
    THEN <<<<Entry(player_name, None, rank, sleeper_players[players[mine]].team,
                   players[mine], TRUE, FALSE)>>,
           <<>>>>
    ELSE IF owned > 0 THEN NoEntries
    ELSE <<<<>>,
           <<Entry(player_name, None, rank, team_abbrev, None, FALSE, FALSE)>>>>

NamedKicker(player_name, team_abbrev, rank, players, league) ==
    IF player_name = "" THEN NoEntries
    ELSE PlacedKicker(player_name, team_abbrev, rank, players,
             FirstIndexOrZero(players,
                 { id \in Range(players) : SameKickerOnRoster(id, player_name) }),
             FirstIndexOrZero(league,
                 { id \in Range(league) : SameKickerInLeague(id, player_name) }))

KickerEntry(ranking, rank, players, league) ==
    IF ~IsRow(ranking) THEN NoEntries
    ELSE NamedKicker(Stripped(ranking.name), Stripped(ranking.team), rank,
                     players, league)

RECURSIVE WeeklyKickers(_, _, _, _)
\* the loop over k_rankings: <<analysis['kickers'], waiver kickers>>
WeeklyKickers(rankings, players, league, i) ==
    IF i > Len(rankings) THEN NoEntries
    ELSE PairConcat(KickerEntry(rankings[i], i, players, league),
                    WeeklyKickers(rankings, players, league, i + 1))

\* list[:n]
Take(s, n) == SubSeq(s, 1, Min2(n, Len(s)))

\* the roster list sorted, and the top of the combined (roster + free agent)
\* list, of one <<roster entries, waiver entries>> pair
RosterSorted(pair) == SortByRank(pair[1])
CombinedTop(pair) ==
    Take(SortByRank(SortByRank(pair[1]) \o SortByRank(pair[2])), WaiverTop)

\* the analysis with the defense and kicker lists of the two loops
WithDefK(a, d, k) ==
    [a EXCEPT !.defenses = RosterSorted(d),
              !.kickers = RosterSorted(k),
              !.waiver_defenses = CombinedTop(d),
              !.waiver_kickers = CombinedTop(k)]

\* Defenses and kickers are processed, sorted, and the waiver lists replaced
\* by the combined top five.
W_DefK ==
    /\ pc = "w_defk"
    /\ analysis' =
           WithDefK(analysis,
                    WeeklyDefenses(dst_rankings, user_players, all_league_players, 1),
                    WeeklyKickers(k_rankings, user_players, all_league_players, 1))
    /\ pc' = "w_fixed"
    /\ UNCHANGED <<tool_vars, ros_vars, inputs, weekly_locals, starters, bench, flex_lists,
                   optimal_locals>>

\* ------------------------------------------------------------------------
\* Slot allocation: the fixed-position pass and the flex passes
\* ------------------------------------------------------------------------

\* the keys of position_requirements (lines 1138-1147)
RequirementKeys == {"QB", "RB", "WR", "TE", "WRRB_FLEX", "FLEX",
                    "WRRBTE_FLEX", "SUPER_FLEX"}

\* position_requirements, were every slot read as a single one
position_requirements_single(settings) ==
    [pos \in RequirementKeys |-> Min2(1, SettingsGet(settings, pos))]

position_requirements(settings) ==
    [pos \in RequirementKeys |-> SettingsGet(settings, pos)]

\* eligibility of the three flex lists (lines 1163-1165)
SuperFlexEligible == {"QB", "RB", "WR", "TE"}
FlexEligible == {"RB", "WR", "TE"}
WrrbEligible == {"RB", "WR"}

RECURSIVE FixedPassOneOver(_, _, _, _)
\* a first pass that lets each fixed slot take one player over its count
FixedPassOneOver(players, required, position_used, i) ==
    IF i > Len(players) THEN <<<<>>, <<>>>>
    ELSE LET player == players[i]
             pos == player.position
         IN  IF pos \in RequirementKeys /\ position_used[pos] <= required[pos]
             THEN LET rest == FixedPassOneOver(players, required,
                                        [position_used EXCEPT ![pos] = @ + 1],
                                        i + 1)
                  IN  <<<<player>> \o rest[1], rest[2]>>
             ELSE LET rest == FixedPassOneOver(players, required, position_used, i + 1)
                  IN  <<rest[1], <<player>> \o rest[2]>>

RECURSIVE FixedPass(_, _, _, _)
\* "First pass: Fill required positions": <<starters, bench>> of the players
\* from index i on, position_used being the slots used so far
FixedPass(players, required, position_used, i) ==
    IF i > Len(players) THEN <<<<>>, <<>>>>
    ELSE LET player == players[i]
             pos == player.position
         IN  IF pos \in RequirementKeys /\ position_used[pos] < required[pos]
             THEN LET rest == FixedPass(players, required,
                                        [position_used EXCEPT ![pos] = @ + 1],
                                        i + 1)
                  IN  <<<<player>> \o rest[1], rest[2]>>
             ELSE LET rest == FixedPass(players, required, position_used, i + 1)
                  IN  <<rest[1], <<player>> \o rest[2]>>

\* flex lists that hold the whole bench, whatever the position
EligibleByRankAnyPosition(players, eligible) == SortByRank(players)

\* [p for p in bench if p['position'] in eligible], sorted by rank
EligibleByRank(players, eligible) ==
    SortByRank(FilterSeq(players, { p \in Range(players) : p.position \in eligible }))

RemoveIfPresent(list, x) ==
    IF x \in Range(list) THEN RemoveFirst(list, x) ELSE list

\* the lists of one allocation: starters, bench and the three flex lists
Lists(st, bn, all, wrrbte, wrrb) ==
    [starters |-> st, bench |-> bn, all_flex |-> all,
     wrrbte_flex |-> wrrbte, wrrb_flex |-> wrrb]

RECURSIVE FillSuperFlexWorstFirst(_, _)
\* a SUPER_FLEX pass that takes the worst-ranked player of its list
FillSuperFlexWorstFirst(l, needed) ==
    IF needed <= 0 THEN l
    ELSE IF l.all_flex = <<>> THEN FillSuperFlexWorstFirst(l, needed - 1)
    ELSE LET best_flex == l.all_flex[Len(l.all_flex)]
         IN  FillSuperFlexWorstFirst(
                 Lists(Append(l.starters, [best_flex EXCEPT !.flex_slot = "SUPER_FLEX"]),
                       RemoveFirst(l.bench, best_flex),
                       SubSeq(l.all_flex, 1, Len(l.all_flex) - 1),
                       RemoveIfPresent(l.wrrbte_flex, best_flex),
                       RemoveIfPresent(l.wrrb_flex, best_flex)),
                 needed - 1)

RECURSIVE FillSuperFlex(_, _)
\* "Fill SUPER_FLEX (can use QB, RB, WR, or TE) - highest priority"
FillSuperFlex(l, needed) ==
    IF needed <= 0 THEN l
    ELSE IF l.all_flex = <<>> THEN FillSuperFlex(l, needed - 1)
    ELSE LET best_flex == Head(l.all_flex)
         IN  FillSuperFlex(
                 Lists(Append(l.starters, [best_flex EXCEPT !.flex_slot = "SUPER_FLEX"]),
                       RemoveFirst(l.bench, best_flex),
                       Tail(l.all_flex),
                       RemoveIfPresent(l.wrrbte_flex, best_flex),
                       RemoveIfPresent(l.wrrb_flex, best_flex)),
                 needed - 1)

RECURSIVE FillWrrbteLeavingLists(_, _, _)
\* a FLEX pass that leaves the player it takes in the WRRB_FLEX list
FillWrrbteLeavingLists(l, needed, slot) ==
    IF needed <= 0 THEN l
    ELSE IF l.wrrbte_flex = <<>> THEN FillWrrbteLeavingLists(l, needed - 1, slot)
    ELSE LET best_flex == Head(l.wrrbte_flex)
         IN  FillWrrbteLeavingLists(
                 Lists(Append(l.starters, [best_flex EXCEPT !.flex_slot = slot]),
                       RemoveFirst(l.bench, best_flex),
                       l.all_flex,
                       Tail(l.wrrbte_flex),
                       l.wrrb_flex),
                 needed - 1, slot)

RECURSIVE FillWrrbte(_, _, _)
\* "Fill FLEX (can use RB, WR, or TE)" and "Fill WRRBTE_FLEX ... same as FLEX"
FillWrrbte(l, needed, slot) ==
    IF needed <= 0 THEN l
    ELSE IF l.wrrbte_flex = <<>> THEN FillWrrbte(l, needed - 1, slot)
    ELSE LET best_flex == Head(l.wrrbte_flex)
         IN  FillWrrbte(
                 Lists(Append(l.starters, [best_flex EXCEPT !.flex_slot = slot]),
                       RemoveFirst(l.bench, best_flex),
                       l.all_flex,
                       Tail(l.wrrbte_flex),
                       RemoveIfPresent(l.wrrb_flex, best_flex)),
                 needed - 1, slot)

RECURSIVE FillWrrbKeepingBench(_, _)
\* a WRRB_FLEX pass that leaves the player it starts on the bench
FillWrrbKeepingBench(l, needed) ==
    IF needed <= 0 THEN l
    ELSE IF l.wrrb_flex = <<>> THEN FillWrrbKeepingBench(l, needed - 1)
    ELSE LET best_flex == Head(l.wrrb_flex)
         IN  FillWrrbKeepingBench(
                 Lists(Append(l.starters, [best_flex EXCEPT !.flex_slot = "WRRB_FLEX"]),
                       l.bench,
                       l.all_flex,
                       l.wrrbte_flex,
                       Tail(l.wrrb_flex)),
                 needed - 1)

RECURSIVE FillWrrb(_, _)
\* "Fill WRRB_FLEX (can use RB or WR only)"
FillWrrb(l, needed) ==
    IF needed <= 0 THEN l
    ELSE IF l.wrrb_flex = <<>> THEN FillWrrb(l, needed - 1)
    ELSE LET best_flex == Head(l.wrrb_flex)
         IN  FillWrrb(
                 Lists(Append(l.starters, [best_flex EXCEPT !.flex_slot = "WRRB_FLEX"]),
                       RemoveFirst(l.bench, best_flex),
                       l.all_flex,
                       l.wrrbte_flex,
                       Tail(l.wrrb_flex)),
                 needed - 1)

CurrentLists ==
    Lists(starters, bench, all_flex_players, wrrbte_flex_players, wrrb_flex_players)

\* the assignment of the five lists after a pass
SetLists(l) ==
    /\ starters' = l.starters
    /\ bench' = l.bench
    /\ all_flex_players' = l.all_flex
    /\ wrrbte_flex_players' = l.wrrbte_flex
    /\ wrrb_flex_players' = l.wrrb_flex

\* "Second pass: Fill flex positions with best remaining players": the
\* three eligibility lists of the bench that the first pass leaves
WithFlexLists(fp) ==
    Lists(fp[1], fp[2],
          EligibleByRank(fp[2], SuperFlexEligible),
          EligibleByRank(fp[2], FlexEligible),
          EligibleByRank(fp[2], WrrbEligible))

\* the first pass over a list of players, all slots unused
Allocate(players, settings) ==
    WithFlexLists(FixedPass(players, position_requirements(settings),
                            [pos \in RequirementKeys |-> 0], 1))

\* First pass, then the flex lists are built from the bench and sorted
W_FixedPass ==
    /\ pc = "w_fixed"
    /\ SetLists(Allocate(user_offensive_players, roster_settings))
    /\ pc' = "w_superflex"
    /\ UNCHANGED <<tool_vars, ros_vars, inputs, weekly_locals, analysis, optimal_locals>>

W_SuperFlex ==
    /\ pc = "w_superflex"
    /\ SetLists(FillSuperFlex(CurrentLists,
                              position_requirements(roster_settings)["SUPER_FLEX"]))
    /\ pc' = "w_flex"
    /\ UNCHANGED <<tool_vars, ros_vars, inputs, weekly_locals, analysis, optimal_locals>>

W_Flex ==
    /\ pc = "w_flex"
    /\ SetLists(FillWrrbte(CurrentLists,
                           position_requirements(roster_settings)["FLEX"], "FLEX"))
    /\ pc' = "w_wrrbte"
    /\ UNCHANGED <<tool_vars, ros_vars, inputs, weekly_locals, analysis, optimal_locals>>

W_WrrbteFlex ==
    /\ pc = "w_wrrbte"
    /\ SetLists(FillWrrbte(CurrentLists,
                           position_requirements(roster_settings)["WRRBTE_FLEX"],
                           "WRRBTE_FLEX"))
    /\ pc' = "w_wrrb"
    /\ UNCHANGED <<tool_vars, ros_vars, inputs, weekly_locals, analysis, optimal_locals>>

W_WrrbFlex ==
    /\ pc = "w_wrrb"
    /\ SetLists(FillWrrb(CurrentLists,
                         position_requirements(roster_settings)["WRRB_FLEX"]))
    /\ pc' = "w_sort"
    /\ UNCHANGED <<tool_vars, ros_vars, inputs, weekly_locals, analysis, optimal_locals>>

\* ------------------------------------------------------------------------
\* analyze_weekly_rankings: the reported lineup (lines 1219-1330)
\* ------------------------------------------------------------------------

\* the slot names that position_order admits (line 1227)
OrderedSlots == {"QB", "RB", "WR", "TE", "SUPER_FLEX", "FLEX",
                 "WRRBTE_FLEX", "WRRB_FLEX"}

\* position_order, were each admitted slot listed once
position_order_once(settings) ==
    Flatten([i \in DOMAIN settings |->
                IF settings[i][2] > 0 /\ settings[i][1] \in OrderedSlots
                THEN <<settings[i][1]>>
                ELSE <<>>])

\* position_order: each admitted slot of roster_settings, count times, in
\* the order of declaration
position_order(settings) ==
    Flatten([i \in DOMAIN settings |->
                IF settings[i][2] > 0 /\ settings[i][1] \in OrderedSlots
                THEN [k \in 1..settings[i][2] |-> settings[i][1]]
                ELSE <<>>])

\* starter.get('flex_slot', starter['position'])
SlotOf(starter) ==
    IF starter.flex_slot # None THEN starter.flex_slot ELSE starter.position

\* starters_by_pos[pos], sorted by rank
StartersByPos(sts, pos) ==
    SortByRank(FilterSeq(sts, { p \in Range(sts) : SlotOf(p) = pos }))

RECURSIVE FollowOrder(_, _, _, _)
\* "Add starters following the roster requirements order"
FollowOrder(order, sts, position_counts, i) ==
    IF i > Len(order) THEN <<>>
    ELSE LET pos == order[i]
             group == StartersByPos(sts, pos)
         IN  IF position_counts[pos] < Len(group)
             THEN <<group[position_counts[pos] + 1]>>
                  \o FollowOrder(order, sts,
                                 [position_counts EXCEPT ![pos] = @ + 1], i + 1)
             ELSE FollowOrder(order, sts, position_counts, i + 1)

W_SortStarters ==
    /\ pc = "w_sort"
    /\ sorted_starters' =
           FollowOrder(position_order(roster_settings), starters,
                       [pos \in OrderedSlots |-> 0], 1)
    /\ pc' = "w_adddefk"
    /\ UNCHANGED <<tool_vars, ros_vars, inputs, user_offensive_players, starters, bench, flex_lists,
                   analysis, optimal_locals>>

\* BestPick, were the roster's best always preferred to the waiver wire
BestPickRosterFirst(waiver, roster) ==
    IF roster # <<>> THEN <<roster[1], FALSE>>
    ELSE IF waiver # <<>> THEN <<waiver[1], TRUE>>
    ELSE <<>>

\* the better of the heads of the combined list and of the roster list, as
\* <<player, taken from the combined list>>, or <<>> when both are empty
BestPick(waiver, roster) ==
    IF waiver # <<>>
    THEN IF roster # <<>>
         THEN IF waiver[1].rank < roster[1].rank
              THEN <<waiver[1], TRUE>>
              ELSE <<roster[1], FALSE>>
         ELSE <<waiver[1], TRUE>>
    ELSE IF roster # <<>> THEN <<roster[1], FALSE>>
    ELSE <<>>

\* the starter made of a pick: its position is set, and a pick of the
\* combined list is marked as a waiver-wire player
PickedStarter(pick, position) ==
    IF pick = <<>> THEN <<>>
    ELSE <<[pick[1] EXCEPT !.position = position,
                           !.is_waiver_wire = IF pick[2] THEN TRUE ELSE @]>>

\* BestAvailable, were the head of the combined list taken as a waiver-wire
\* pick whenever there is one
BestAvailableOfHead(needed, waiver, roster, position) ==
    IF needed > 0
    THEN PickedStarter(IF waiver # <<>> THEN <<waiver[1], TRUE>>
                       ELSE BestPick(waiver, roster), position)
    ELSE <<>>

\* The best kicker or defense (lines 1266-1294 and 1297-1325): <<>> or
\* <<the starter>>
BestAvailable(needed, waiver, roster, position) ==
    IF needed > 0 THEN PickedStarter(BestPick(waiver, roster), position)
    ELSE <<>>

\* the starters with the kicker, then the defense, appended
WithKDst(offense, a, settings) ==
    offense
    \o BestAvailable(SettingsGet(settings, "K"), a.waiver_kickers, a.kickers, "K")
    \o BestAvailable(SettingsGet(settings, "DEF"), a.waiver_defenses, a.defenses, "DEF")

\* K is added first, then DST; the analysis is returned
W_AddKDst ==
    /\ pc = "w_adddefk"
    /\ sorted_starters' = WithKDst(sorted_starters, analysis, roster_settings)
    /\ analysis' = [analysis EXCEPT !.starters = sorted_starters', !.bench = bench]
    /\ pc' = "w_done"
    /\ UNCHANGED <<tool_vars, ros_vars, inputs, user_offensive_players, starters, bench,
                   flex_lists, optimal_locals>>

\* ------------------------------------------------------------------------
\* analyze_optimal_lineup_with_free_agents
\* ------------------------------------------------------------------------

\* the display cap of available_free_agents (line 1592)
FreeAgentCap == 10

\* owned_player_ids (lines 1341-1343)
owned_player_ids == Range(all_league_players)

\* the name test of the directory search (lines 1392-1406): the normalized
\* names are equal, or similar with similar first names
SimilarNames(normalized_fp_name, normalized_sleeper_name) ==
    \/ normalized_fp_name = normalized_sleeper_name
    \/ /\ ratios[normalized_fp_name][normalized_sleeper_name] >= FuzzyThreshold
       /\ ratios[FirstToken(normalized_fp_name)]
                [FirstToken(normalized_sleeper_name)] >= FirstNameThreshold

\* the directory test of one entry (lines 1385-1406)
OptimalCandidate(sleeper_id, player_name, base_position) ==
    /\ sleeper_players[sleeper_id].position = base_position
    /\ SimilarNames(Normalized(player_name),
                    Normalized(sleeper_players[sleeper_id].full_name))

\* found_sleeper_id: the first directory entry, in dictionary order, that
\* passes the test, or None
OptimalMatch(player_name, base_position) ==
    AtOrNone(sleeper_ids,
        FirstIndexOrZero(sleeper_ids,
            { id \in Range(sleeper_ids) :
                OptimalCandidate(id, player_name, base_position) }))

\* a pool entry for every resolved row, whoever owns the player
PoolEntryOfAnyOwner(player_name, base_position, rank, found_sleeper_id, players, owned) ==
    IF found_sleeper_id = None THEN <<>>
    ELSE <<Entry(player_name, base_position, rank,
                 sleeper_players[found_sleeper_id].team, found_sleeper_id,
                 found_sleeper_id \in Range(players),
                 found_sleeper_id \notin Range(players))>>

\* the pool entry of a resolved row (lines 1408-1425): roster players and
\* players that no roster of the league owns
PoolEntry(player_name, base_position, rank, found_sleeper_id, players, owned) ==
    IF found_sleeper_id = None THEN <<>>
    ELSE IF found_sleeper_id \in Range(players) \/ found_sleeper_id \notin owned
    THEN <<Entry(player_name, base_position, rank,
                 sleeper_players[found_sleeper_id].team, found_sleeper_id,
                 found_sleeper_id \in Range(players),
                 found_sleeper_id \notin owned
                     /\ found_sleeper_id \notin Range(players))>>
    ELSE <<>>

\* "Skip DST and K since they're handled separately"
PositionedPoolEntry(player_name, base_position, rank, players, owned) ==
    IF base_position \in {"DEF", "K"} THEN <<>>
    ELSE PoolEntry(player_name, base_position, rank,
                   OptimalMatch(player_name, base_position), players, owned)

NamedPoolEntry(player_name, position_with_rank, rank, players, owned) ==
    IF player_name = "" \/ position_with_rank = "" THEN <<>>
    ELSE PositionedPoolEntry(player_name, base_position_of(position_with_rank),
                             rank, players, owned)

\* one pass of the loop over op_rankings (lines 1358-1425)
RankedPoolEntry(ranking, rank, players, owned) ==
    IF ~IsRow(ranking) THEN <<>>
    ELSE NamedPoolEntry(Stripped(ranking.name), Stripped(ranking.pos), rank,
                        players, owned)

RECURSIVE OptimalPool(_, _, _, _)
\* the loop over op_rankings, from row index i on
OptimalPool(rankings, players, owned, i) ==
    IF i > Len(rankings) THEN <<>>
    ELSE RankedPoolEntry(rankings[i], i, players, owned)
         \o OptimalPool(rankings, players, owned, i + 1)

\* for roster_player in all_league_players: roster_player['player_id']
\* (lines 1337-1343): None is replaced by [], another value that is no list
\* cannot be iterated, an entry without the key cannot be indexed
OwnedIdsRaise(type, league) ==
    type \notin {"list", "None"} \/ Lacking \in Range(league)

\* 'OP' in weekly_rankings (line 1355) on a value that is no container
OpLookupRaises(type) == type \in {"None", "int"}

\* any(up['player_id'] == found_sleeper_id for up in user_players), line
\* 1412: raises on a value that cannot be iterated, and on an entry without
\* the key that is met before the id is found
RosterTestRaises(type, players, found_sleeper_id) ==
    \/ type \in {"None", "int"}
    \/ \E k \in DOMAIN players :
          /\ players[k] = Lacking
          /\ \A j \in 1..(k - 1) : players[j] # found_sleeper_id

\* the row reaches the directory search (lines 1359-1378)
SearchedRow(ranking) ==
    /\ IsRow(ranking)
    /\ Stripped(ranking.name) # ""
    /\ Stripped(ranking.pos) # ""
    /\ base_position_of(Stripped(ranking.pos)) \notin {"DEF", "K"}

\* one pass of the loop over op_rankings raises: sleeper_players.items()
\* on a value that is no dict (line 1384), or the roster test
PoolRowRaises(ranking, types, players) ==
    /\ SearchedRow(ranking)
    /\ \/ types.sleeper_players # "dict"
       \/ LET found_sleeper_id ==
                  OptimalMatch(Stripped(ranking.name),
                               base_position_of(Stripped(ranking.pos)))
          IN  /\ found_sleeper_id # None
              /\ RosterTestRaises(types.user_players, players, found_sleeper_id)

\* lines 1337-1425 end in an exception
PoolRaises(types, rankings, players, league) ==
    \/ OwnedIdsRaise(types.all_league_players, league)
    \/ OpLookupRaises(types.weekly_rankings)
    \/ \E i \in DOMAIN rankings : PoolRowRaises(rankings[i], types, players)

\* The combined pool of roster players and free agents, sorted by rank, or
\* the exception of a value the function cannot handle.
\* The call of analyze_weekly_rankings has returned (pc = "w_done").
O_Pool ==
    /\ pc = "w_done"
    /\ IF PoolRaises(arg_types, op_rankings, user_players, all_league_players)
       THEN /\ pc' = "o_raised"
            /\ UNCHANGED all_available_players
       ELSE /\ all_available_players' =
                   SortByRank(OptimalPool(op_rankings, user_players, owned_player_ids, 1))
            /\ pc' = "o_phase1"
    /\ UNCHANGED <<tool_vars, ros_vars, inputs, weekly_locals, starters, bench, flex_lists,
                   analysis, optimal_starters, result>>

\* the five lists of this function (optimal_starters, bench, flex lists)
OptimalLists ==
    Lists(optimal_starters, bench, all_flex_players, wrrbte_flex_players,
          wrrb_flex_players)

SetOptimalLists(l) ==
    /\ optimal_starters' = l.starters
    /\ bench' = l.bench
    /\ all_flex_players' = l.all_flex
    /\ wrrbte_flex_players' = l.wrrbte_flex
    /\ wrrb_flex_players' = l.wrrb_flex

\* "PHASE 1: Fill required positions first", then the flex lists
\* (roster_settings.get raises on a value that is no dict, line 1436)
O_Phase1 ==
    /\ pc = "o_phase1"
    /\ IF arg_types.roster_settings # "dict"
       THEN /\ pc' = "o_raised"
            /\ UNCHANGED <<optimal_starters, bench, flex_lists>>
       ELSE /\ SetOptimalLists(Allocate(all_available_players, roster_settings))
            /\ pc' = "o_superflex"
    /\ UNCHANGED <<tool_vars, ros_vars, inputs, weekly_locals, starters, analysis,
                   all_available_players, result>>

O_SuperFlex ==
    /\ pc = "o_superflex"
    /\ SetOptimalLists(FillSuperFlex(OptimalLists,
           position_requirements(roster_settings)["SUPER_FLEX"]))
    /\ pc' = "o_flex"
    /\ UNCHANGED <<tool_vars, ros_vars, inputs, weekly_locals, starters, analysis,
                   all_available_players, result>>

O_Flex ==
    /\ pc = "o_flex"
    /\ SetOptimalLists(FillWrrbte(OptimalLists,
           position_requirements(roster_settings)["FLEX"], "FLEX"))
    /\ pc' = "o_wrrbte"
    /\ UNCHANGED <<tool_vars, ros_vars, inputs, weekly_locals, starters, analysis,
                   all_available_players, result>>

O_WrrbteFlex ==
    /\ pc = "o_wrrbte"
    /\ SetOptimalLists(FillWrrbte(OptimalLists,
           position_requirements(roster_settings)["WRRBTE_FLEX"], "WRRBTE_FLEX"))
    /\ pc' = "o_wrrb"
    /\ UNCHANGED <<tool_vars, ros_vars, inputs, weekly_locals, starters, analysis,
                   all_available_players, result>>

O_WrrbFlex ==
    /\ pc = "o_wrrb"
    /\ SetOptimalLists(FillWrrb(OptimalLists,
           position_requirements(roster_settings)["WRRB_FLEX"]))
    /\ pc' = "o_adddefk"
    /\ UNCHANGED <<tool_vars, ros_vars, inputs, weekly_locals, starters, analysis,
                   all_available_players, result>>

\* current_starters = current_analysis.get('starters', [])
current_starters == analysis.starters

\* [p for p in list if p['position'] in ['DEF', 'K']]
DefKOf(list) ==
    FilterSeq(list, { s \in Range(list) : s.position \in {"DEF", "K"} })

\* "Add DST and K from current analysis (no optimization needed)"
O_AddDefK ==
    /\ pc = "o_adddefk"
    /\ optimal_starters' = optimal_starters \o DefKOf(current_starters)
    /\ pc' = "o_upgrades"
    /\ UNCHANGED <<tool_vars, ros_vars, inputs, weekly_locals, starters, bench, flex_lists,
                   analysis, all_available_players, result>>

\* {s.get('sleeper_id') for s in list if s.get('sleeper_id')}
PlayerIds(list) == { s.sleeper_id : s \in { x \in Range(list) : x.sleeper_id # None } }

\* a replacement test that admits every pair
can_replace_anyone(added_player, dropped_player) == TRUE

\* "Check if this is a valid replacement" (lines 1551-1570)
can_replace(added_player, dropped_player) ==
    IF added_player.position = dropped_player.position THEN TRUE
    ELSE IF added_player.flex_slot # None /\ dropped_player.flex_slot # None
    THEN /\ added_player.position \in {"RB", "WR", "TE"}
         /\ dropped_player.position \in {"RB", "WR", "TE"}
    ELSE IF added_player.flex_slot # None \/ dropped_player.flex_slot # None
    THEN /\ added_player.position \in {"RB", "WR", "TE"}
         /\ dropped_player.position \in {"RB", "WR", "TE"}
    ELSE FALSE

RECURSIVE BestDrop(_, _, _, _, _)
\* the loop over dropped_players (lines 1545-1576), from index j on:
\* <<best_match, best_improvement>>, best_match being <<>> for None
BestDrop(added_player, dropped_players, j, best_match, best_improvement) ==
    IF j > Len(dropped_players) THEN <<best_match, best_improvement>>
    ELSE IF /\ dropped_players[j].position \notin {"DEF", "K"}
            /\ can_replace(added_player, dropped_players[j])
            /\ dropped_players[j].rank - added_player.rank > best_improvement
    THEN BestDrop(added_player, dropped_players, j + 1,
                  <<dropped_players[j]>>,
                  dropped_players[j].rank - added_player.rank)
    ELSE BestDrop(added_player, dropped_players, j + 1,
                  best_match, best_improvement)

\* the upgrade of one pairing: the add carries replaces_player
Upgrade(added_player, best_match, improvement) ==
    [position |-> added_player.position,
     drop |-> best_match,
     add |-> [added_player EXCEPT !.replaces_player = <<best_match>>],
     improvement |-> improvement]

RECURSIVE MatchAdds(_, _, _, _, _)
RECURSIVE PairAdded(_, _, _, _, _, _)
\* "Match adds with drops to create upgrade pairs": the loop over
\* added_players, which are the entries of optimal_starters whose id is not
\* in current_player_ids, from index i of optimal_starters on.  Returns
\* <<optimal_starters, free_agent_upgrades>>.
MatchAdds(optimal, current_ids, dropped_players, upgrades, i) ==
    IF i > Len(optimal) THEN <<optimal, upgrades>>
    ELSE IF optimal[i].sleeper_id \in current_ids \/ ~optimal[i].is_free_agent
    THEN MatchAdds(optimal, current_ids, dropped_players, upgrades, i + 1)
    ELSE PairAdded(optimal, current_ids, dropped_players, upgrades, i,
                   BestDrop(optimal[i], dropped_players, 1, <<>>, 0))

\* a pairing that leaves the matched player in dropped_players
PairAddedKeepingDrop(optimal, current_ids, dropped_players, upgrades, i, b) ==
    IF b[1] # <<>> /\ b[2] > 0
    THEN MatchAdds([optimal EXCEPT ![i].replaces_player = b[1]],
                   current_ids,
                   dropped_players,
                   Append(upgrades, Upgrade(optimal[i], b[1][1], b[2])),
                   i + 1)
    ELSE MatchAdds(optimal, current_ids, dropped_players, upgrades, i + 1)

\* the added player optimal[i] with the best drop b found for it
PairAdded(optimal, current_ids, dropped_players, upgrades, i, b) ==
    IF b[1] # <<>> /\ b[2] > 0
    THEN MatchAdds([optimal EXCEPT ![i].replaces_player = b[1]],
                   current_ids,
                   RemoveFirst(dropped_players, b[1][1]),
                   Append(upgrades, Upgrade(optimal[i], b[1][1], b[2])),
                   i + 1)
    ELSE MatchAdds(optimal, current_ids, dropped_players, upgrades, i + 1)

\* dropped_players (line 1536)
DroppedPlayers(current, optimal) ==
    FilterSeq(current, { p \in Range(current) : p.sleeper_id \notin PlayerIds(optimal) })

\* [p for p in list if p.get('is_free_agent')]
\* the list, were roster players kept in it
FreeAgentsAndOthers(list) == list

\* [p for p in all_available_players if p.get('is_free_agent', False)]
FreeAgentsOf(list) ==
    FilterSeq(list, { p \in Range(list) : p.is_free_agent })

\* the dictionary that is returned
Returned(m, pool) ==
    [optimal_starters |-> m[1],
     free_agent_upgrades |-> m[2],
     available_free_agents |-> Take(FreeAgentsOf(pool), FreeAgentCap)]

\* The optimal lineup is compared with the current one and the result returned
O_Upgrades ==
    /\ pc = "o_upgrades"
    /\ result' =
           Returned(MatchAdds(optimal_starters, PlayerIds(current_starters),
                              DroppedPlayers(current_starters, optimal_starters),
                              <<>>, 1),
                    all_available_players)
    /\ optimal_starters' = result'.optimal_starters
    /\ pc' = "done"
    /\ UNCHANGED <<tool_vars, ros_vars, inputs, weekly_locals, starters, bench, flex_lists,
                   analysis, all_available_players>>

\* ------------------------------------------------------------------------
\* analyze_ros_recommendations
\* ------------------------------------------------------------------------

\* the entries of user_ros_players and free_agents
RosEntry(player_id, ros_player) ==
    [player_id |-> player_id, name |-> ros_player.name,
     position |-> ros_player.position, team |-> ros_player.team,
     rank |-> ros_player.rank]

\* <<score, first_name_score>> of a directory name and a ranked name, both
\* normalized (lines 634-640 and 679-684)
RosScores(normalized_sleeper_name, normalized_ros_name) ==
    <<ratios[normalized_sleeper_name][normalized_ros_name],
      ratios[FirstToken(normalized_sleeper_name)][FirstToken(normalized_ros_name)]>>

RosSimilar(scores) ==
    scores[1] >= FuzzyThreshold /\ scores[2] >= FirstNameThreshold

RECURSIVE BestRosMatch(_, _, _, _, _, _)
RECURSIVE BetterRosMatch(_, _, _, _, _, _, _)
\* the loop over ros_rankings for one roster player (lines 629-644), from
\* index i on: best_match, <<>> standing for None
BestRosMatch(sleeper_name, sleeper_position, rankings, i, best_match, best_score) ==
    IF i > Len(rankings) THEN best_match
    ELSE IF rankings[i].position # sleeper_position
    THEN BestRosMatch(sleeper_name, sleeper_position, rankings, i + 1,
                      best_match, best_score)
    ELSE BetterRosMatch(sleeper_name, sleeper_position, rankings, i,
                        best_match, best_score,
                        RosScores(Normalized(sleeper_name),
                                  Normalized(rankings[i].name)))

\* rankings[i] replaces the best match when it is similar and scores higher
BetterRosMatch(sleeper_name, sleeper_position, rankings, i, best_match, best_score, scores) ==
    IF RosSimilar(scores) /\ scores[1] > best_score
    THEN BestRosMatch(sleeper_name, sleeper_position, rankings, i + 1,
                      <<rankings[i]>>, scores[1])
    ELSE BestRosMatch(sleeper_name, sleeper_position, rankings, i + 1,
                      best_match, best_score)

\* the entry of a roster player with its best match, if any (lines 646-654)
MatchedRosEntry(player_id, best_match) ==
    IF best_match = <<>> THEN <<>> ELSE <<RosEntry(player_id, best_match[1])>>

\* "Skip DST and K since they're handled elsewhere", else match
PositionedRosEntry(player_id, sleeper_name, sleeper_position, rankings) ==
    IF sleeper_position \in {"DEF", "K"} THEN <<>>
    ELSE MatchedRosEntry(player_id,
             BestRosMatch(sleeper_name, sleeper_position, rankings, 1, <<>>, 0))

UserRosEntry(player_id, rankings) ==
    IF ~InDirectory(player_id) THEN <<>>
    ELSE PositionedRosEntry(player_id,
                            Stripped(sleeper_players[player_id].full_name),
                            Stripped(sleeper_players[player_id].position),
                            rankings)

RECURSIVE UserRosPlayers(_, _, _)
\* "Match user's players with ROS rankings" (lines 608-654), from index i on
UserRosPlayers(players, rankings, i) ==
    IF i > Len(players) THEN <<>>
    ELSE UserRosEntry(players[i], rankings)
         \o UserRosPlayers(players, rankings, i + 1)

\* the directory test of one entry for a ROS player (lines 673-688)
RosCandidate(sleeper_id, ros_player) ==
    /\ sleeper_players[sleeper_id].position = ros_player.position
    /\ RosSimilar(RosScores(
           Normalized(Stripped(sleeper_players[sleeper_id].full_name)),
           Normalized(ros_player.name)))

\* found_sleeper_id of one ROS player (lines 669-688), or None
RosDirectoryMatch(ros_player) ==
    AtOrNone(sleeper_ids,
        FirstIndexOrZero(sleeper_ids,
            { id \in Range(sleeper_ids) : RosCandidate(id, ros_player) }))

\* "If player found and not owned by any team, add to free agents"
FoundFreeAgent(ros_player, found_sleeper_id, owned) ==
    IF found_sleeper_id # None /\ found_sleeper_id \notin owned
    THEN <<RosEntry(found_sleeper_id, ros_player)>>
    ELSE <<>>

RosFreeAgent(ros_player, owned) ==
    IF ros_player.position \in {"DEF", "K"} THEN <<>>
    ELSE FoundFreeAgent(ros_player, RosDirectoryMatch(ros_player), owned)

RECURSIVE RosFreeAgents(_, _, _)
\* "Find free agents (players not owned by any team) with ROS rankings"
RosFreeAgents(rankings, owned, i) ==
    IF i > Len(rankings) THEN <<>>
    ELSE RosFreeAgent(rankings[i], owned) \o RosFreeAgents(rankings, owned, i + 1)

\* max(list, key=rank) and min(list, key=rank): the first of the extremes
MaxByRank(list) ==
    list[CHOOSE i \in DOMAIN list :
            /\ \A j \in DOMAIN list : list[j].rank <= list[i].rank
            /\ \A j \in 1..(i - 1) : list[j].rank < list[i].rank]

MinByRank(list) ==
    list[CHOOSE i \in DOMAIN list :
            /\ \A j \in DOMAIN list : list[j].rank >= list[i].rank
            /\ \A j \in 1..(i - 1) : list[j].rank > list[i].rank]

\* positions (line 707)
RosPositions == <<"QB", "RB", "WR", "TE">>

AtPosition(list, position) ==
    FilterSeq(list, { p \in Range(list) : p.position = position })

\* a recommendation whether or not the free agent is better ranked
RecommendationUnguarded(worst_user_player, best_free_agent) ==
    <<[drop |-> worst_user_player,
       add |-> best_free_agent,
       improvement |-> worst_user_player.rank - best_free_agent.rank]>>

\* "Only recommend if free agent is better ranked"
Recommendation(worst_user_player, best_free_agent) ==
    IF best_free_agent.rank < worst_user_player.rank
    THEN <<[drop |-> worst_user_player,
            add |-> best_free_agent,
            improvement |-> worst_user_player.rank - best_free_agent.rank]>>
    ELSE <<>>

\* RecommendationAmong, were the first of the user's players taken
RecommendationAmongFirst(user_position_players, free_agent_position_players) ==
    IF user_position_players # <<>> /\ free_agent_position_players # <<>>
    THEN Recommendation(user_position_players[1],
                        MinByRank(free_agent_position_players))
    ELSE <<>>

\* the recommendations of one position, given its players (lines 713-726)
RecommendationAmong(user_position_players, free_agent_position_players) ==
    IF user_position_players # <<>> /\ free_agent_position_players # <<>>
    THEN Recommendation(MaxByRank(user_position_players),
                        MinByRank(free_agent_position_players))
    ELSE <<>>

PositionRecommendation(users, free, position) ==
    RecommendationAmong(AtPosition(users, position), AtPosition(free, position))

RECURSIVE InsertByRankDescending(_, _)
InsertByRankDescending(sorted, e) ==
    IF sorted = <<>> THEN <<e>>
    ELSE IF e.rank > Head(sorted).rank THEN <<e>> \o sorted
    ELSE <<Head(sorted)>> \o InsertByRankDescending(Tail(sorted), e)

RECURSIVE SortByRankDescending(_)
\* sorted(list, key=rank, reverse=True): stable, descending
SortByRankDescending(s) ==
    IF s = <<>> THEN <<>>
    ELSE InsertByRankDescending(SortByRankDescending(SubSeq(s, 1, Len(s) - 1)),
                                s[Len(s)])

\* the swap <<add, drop>> put before the swaps that follow it
WithSwap(free_agent, user_player, rest) ==
    <<<<free_agent>> \o rest[1], <<user_player>> \o rest[2]>>

RECURSIVE BeneficialSwapsNotWorse(_, _, _)
\* the loop, were a free agent of equal rank taken for a better one
BeneficialSwapsNotWorse(sorted_free_agents, sorted_user_players, i) ==
    IF i > Min2(Len(sorted_free_agents), Len(sorted_user_players))
    THEN <<<<>>, <<>>>>
    ELSE IF sorted_free_agents[i].rank <= sorted_user_players[i].rank
    THEN WithSwap(sorted_free_agents[i], sorted_user_players[i],
                  BeneficialSwapsNotWorse(sorted_free_agents, sorted_user_players, i + 1))
    ELSE <<<<>>, <<>>>>

RECURSIVE BeneficialSwaps(_, _, _)
\* "Find beneficial swaps" (lines 740-750), from index i on:
\* <<best_adds, worst_drops>>
BeneficialSwaps(sorted_free_agents, sorted_user_players, i) ==
    IF i > Min2(Len(sorted_free_agents), Len(sorted_user_players))
    THEN <<<<>>, <<>>>>
    ELSE IF sorted_free_agents[i].rank < sorted_user_players[i].rank
    THEN WithSwap(sorted_free_agents[i], sorted_user_players[i],
                  BeneficialSwaps(sorted_free_agents, sorted_user_players, i + 1))
    ELSE <<<<>>, <<>>>>

\* BestValue, were the free agents paired with the user's best players first
BestValueAgainstBest(users, free) ==
    IF users # <<>> /\ free # <<>>
    THEN BeneficialSwaps(SortByRank(free), SortByRank(users), 1)
    ELSE <<<<>>, <<>>>>

\* best_adds and worst_drops (lines 731-750)
BestValue(users, free) ==
    IF users # <<>> /\ free # <<>>
    THEN BeneficialSwaps(SortByRank(free), SortByRankDescending(users), 1)
    ELSE <<<<>>, <<>>>>

\* Called on its own, or after the lineup analyses when rest-of-season
\* rankings are loaded (ui.py, `if ros_rankings:`).
\* the loop over user_players_list (lines 609-611) raises: the value cannot
\* be iterated, an entry has no player_id, or sleeper_players has no get
RosUsersRaise(types, players) ==
    \/ types.user_players \in {"None", "int"}
    \/ Lacking \in Range(players)
    \/ players # <<>> /\ types.sleeper_players # "dict"

\* the loops over all_league_players and over the directory (lines 658-659
\* and 672) raise: None is not replaced here
RosFreeAgentsRaise(types, league, rankings) ==
    \/ types.all_league_players # "list"
    \/ Lacking \in Range(league)
    \/ /\ types.sleeper_players # "dict"
       /\ \E i \in DOMAIN rankings : rankings[i].position \notin {"DEF", "K"}

R_UserPlayers ==
    /\ \/ pc = "r_start"
       \/ pc = "done" /\ ros_rankings # <<>>
    /\ IF RosUsersRaise(arg_types, user_players)
       THEN /\ pc' = "r_raised"
            /\ UNCHANGED user_ros_players
       ELSE /\ user_ros_players' = UserRosPlayers(user_players, ros_rankings, 1)
            /\ pc' = "r_free"
    /\ UNCHANGED <<tool_vars, inputs, weekly_locals, starters, bench, flex_lists, analysis,
                   optimal_locals, ros_rankings, free_agents, recommendations>>

\* The free agents are found, then both lists are sorted by rank
R_FreeAgents ==
    /\ pc = "r_free"
    /\ IF RosFreeAgentsRaise(arg_types, all_league_players, ros_rankings)
       THEN /\ pc' = "r_raised"
            /\ UNCHANGED <<free_agents, user_ros_players>>
       ELSE /\ free_agents' =
                   SortByRank(RosFreeAgents(ros_rankings, owned_player_ids, 1))
            /\ user_ros_players' = SortByRank(user_ros_players)
            /\ pc' = "r_position"
    /\ UNCHANGED <<tool_vars, inputs, weekly_locals, starters, bench, flex_lists, analysis,
                   optimal_locals, ros_rankings, recommendations>>

R_PositionRecommendations ==
    /\ pc = "r_position"
    /\ recommendations' =
           [recommendations EXCEPT !.position_recommendations =
               [k \in DOMAIN RosPositions |->
                   PositionRecommendation(user_ros_players, free_agents,
                                          RosPositions[k])]]
    /\ pc' = "r_best"
    /\ UNCHANGED <<tool_vars, inputs, weekly_locals, starters, bench, flex_lists, analysis,
                   optimal_locals, ros_rankings, user_ros_players, free_agents>>

\* the dictionary that is returned, with the best-value swaps
WithBestValue(r, users, free, swaps) ==
    [r EXCEPT !.user_players = users,
              !.free_agents = free,
              !.best_adds = swaps[1],
              !.worst_drops = swaps[2]]

\* "Best value recommendations (ignore positions)"; the result is returned
R_BestValue ==
    /\ pc = "r_best"
    /\ recommendations' =
           WithBestValue(recommendations, user_ros_players, free_agents,
                         BestValue(user_ros_players, free_agents))
    /\ pc' = "r_done"
    /\ UNCHANGED <<tool_vars, inputs, weekly_locals, starters, bench, flex_lists, analysis,
                   optimal_locals, ros_rankings, user_ros_players, free_agents>>

\* ------------------------------------------------------------------------
\* match_players (lines 302-410)
\* ------------------------------------------------------------------------

\* str.upper() on one character
UpperChar(c) ==
    IF c \in LowerChars
    THEN UpperSeq[CHOOSE i \in DOMAIN LowerSeq : LowerSeq[i] = c]
    ELSE IF c = "e+acute" THEN "E+acute"
    ELSE c

RECURSIVE MapUpper(_)
MapUpper(s) ==
    IF s = <<>> THEN <<>> ELSE <<UpperChar(Head(s))>> \o MapUpper(Tail(s))

\* (value or "").upper() on a held string
Upper(h) == IF h = None THEN "" ELSE Intern(MapUpper(Text[h]))

\* `if value:` on an optional string
Truthy(h) == h # None /\ h # ""

\* "best_match[1] >= 95" and "first_name_similarity >= 85" of match_players
MatchThreshold == 95
MatchFirstNameThreshold == 85

\* d[k] = v on a dict, held as the sequence of its <<key, value>> items in
\* insertion order: an existing key keeps its place and takes the value
DictSet(d, k, v) ==
    IF \E i \in DOMAIN d : d[i][1] = k
    THEN [i \in DOMAIN d |-> IF d[i][1] = k THEN <<k, v>> ELSE d[i]]
    ELSE Append(d, <<k, v>>)

\* k in d, and d[k]
DictHas(d, k) == \E i \in DOMAIN d : d[i][1] = k
DictGet(d, k) == d[CHOOSE i \in DOMAIN d : d[i][1] = k][2]

RECURSIVE DictSetAll(_, _, _)
\* d[k] = v for the keys of a list, in order
DictSetAll(d, keys, v) ==
    IF keys = <<>> THEN d
    ELSE DictSetAll(DictSet(d, Head(keys), v), Tail(keys), v)

\* f"{first} {last}"
FirstLast(sleeper_player) ==
    Text[sleeper_player.first_name] \o <<" ">> \o Text[sleeper_player.last_name]

\* the normalized names under which an entry is filed, in the order of the
\* assignments: full_name, search_full_name, first + last (lines 314-324)
NormalizedKeys(sleeper_player) ==
    (IF Truthy(sleeper_player.full_name)
     THEN <<Normalized(sleeper_player.full_name)>> ELSE <<>>)
    \o (IF Truthy(sleeper_player.search_full_name)
        THEN <<Normalized(sleeper_player.search_full_name)>> ELSE <<>>)
    \o (IF Truthy(sleeper_player.first_name) /\ Truthy(sleeper_player.last_name)
        THEN <<normalize_name(FirstLast(sleeper_player))>> ELSE <<>>)

RECURSIVE SleeperNames(_, _, _)
\* the loop that fills sleeper_names (lines 312-315), from index i on
SleeperNames(ids, i, d) ==
    IF i > Len(ids) THEN d
    ELSE SleeperNames(ids, i + 1,
             IF Truthy(sleeper_players[ids[i]].full_name)
             THEN DictSet(d, sleeper_players[ids[i]].full_name, ids[i])
             ELSE d)

RECURSIVE NormalizedMap(_, _, _)
\* the loop that fills normalized_map (lines 312-324), from index i on
NormalizedMap(ids, i, d) ==
    IF i > Len(ids) THEN d
    ELSE NormalizedMap(ids, i + 1,
             DictSetAll(d, NormalizedKeys(sleeper_players[ids[i]]), ids[i]))

\* the ids of the entries of a position (lines 327-329)
IdsAt(pos) ==
    FilterSeq(sleeper_ids,
              { id \in Range(sleeper_ids) : Upper(sleeper_players[id].position) = pos })

\* the three lookup tables that match_players builds first
sleeper_names == SleeperNames(sleeper_ids, 1, <<>>)
normalized_map == NormalizedMap(sleeper_ids, 1, <<>>)
DirectoryPositions ==
    { Upper(sleeper_players[id].position) : id \in Range(sleeper_ids) } \ {""}
position_map ==
    [pos \in DirectoryPositions |-> NormalizedMap(IdsAt(pos), 1, <<>>)]

\* a player of self.players, not yet matched
FantasyProsPlayer(name, team, position) ==
    [name |-> name, team |-> team, position |-> position, sleeper_id |-> None]

\* Players of self.players.  By name: Al Po is matched exactly (to the
\* first of the two entries of that normalized name); al po, AlPo and
\* Cy Ra by normalized name; Jo Harrisons and Jo Harriss by fuzzy match;
\* Jo Harri (score 94) and the two long names (first names scoring 85 and
\* 84) are at the thresholds; Zed Smith is left to the fallback, which
\* finds two RBs named Smith in Miami, one WR in Dallas (also for the team
\* written dal) and no QB; Zed Ix and the empty name match nothing.  DST is
\* a position of no entry.
PlayerRows ==
    { FantasyProsPlayer("Al Po", "DEN", "QB"),
      FantasyProsPlayer("al po", "DEN", "QB"),
      FantasyProsPlayer("AlPo", "DEN", "QB"),
      FantasyProsPlayer("Cy Ra", "DAL", "RB"),
      FantasyProsPlayer("Jo Harrisons", "MIA", "TE"),
      FantasyProsPlayer("Jo Harriss", "DAL", "TE"),
      FantasyProsPlayer("Jo Harri", "DAL", "TE"),
      FantasyProsPlayer("Abcdefghijkno Opqrstuvwxyzabcdefghijk", "DAL", "TE"),
      FantasyProsPlayer("Abcdefghxy Opqrstuvwxyzabcde", "DAL", "TE"),
      FantasyProsPlayer("Zed Smith", "MIA", "RB"),
      FantasyProsPlayer("Zed Smith", "dal", "WR"),
      FantasyProsPlayer("Zed Smith", "DAL", "WR"),
      FantasyProsPlayer("Zed Smith", "FA", "WR"),
      FantasyProsPlayer("Zed Smith", "DEN", "QB"),
      FantasyProsPlayer("Zed Ix", "FA", "DST"),
      FantasyProsPlayer("", "DEN", "QB") }

\* the normalized names of the players, and the keys they are scored against
MatchedNames == { Normalized(row.name) : row \in PlayerRows }
MatchedKeys == { normalized_map[i][1] : i \in DOMAIN normalized_map }

\* fuzz.token_sort_ratio of every name and key
key_scores ==
    [s1 \in MatchedNames |-> [s2 \in MatchedKeys |-> token_sort_ratio(s1, s2)]]

\* fuzz.ratio of the first tokens of every name and key
first_name_scores ==
    [s1 \in MatchedNames |-> [s2 \in MatchedKeys |->
        ratio(FirstToken(s1), FirstToken(s2))]]

\* "Try exact match first": the id, or None
ExactMatch(fantasypros_player) ==
    IF DictHas(sleeper_names, fantasypros_player.name)
    THEN DictGet(sleeper_names, fantasypros_player.name)
    ELSE None

\* "Try normalized exact match": the id, or None
NormalizedMatch(fantasypros_player) ==
    IF DictHas(normalized_map, Normalized(fantasypros_player.name))
    THEN DictGet(normalized_map, Normalized(fantasypros_player.name))
    ELSE None

\* position_map.get(position, {}) or normalized_map
CandidatesMap(position) ==
    IF position \in DOMAIN position_map /\ position_map[position] # <<>>
    THEN position_map[position]
    ELSE normalized_map

\* The validation, were both of its comparisons strict
FuzzyAcceptedStrictly(candidates_map, normalized_fp, best_match) ==
    IF /\ best_match[2] > MatchThreshold
       /\ Len(FirstToken(normalized_fp)) > 0
       /\ Len(FirstToken(best_match[1])) > 0
       /\ first_name_scores[normalized_fp][best_match[1]] > MatchFirstNameThreshold
    THEN DictGet(candidates_map, best_match[1])
    ELSE None

\* the validation of the best match (lines 361-379): the id, or None
FuzzyAccepted(candidates_map, normalized_fp, best_match) ==
    IF /\ best_match[2] >= MatchThreshold
       /\ Len(FirstToken(normalized_fp)) > 0
       /\ Len(FirstToken(best_match[1])) > 0
       /\ first_name_scores[normalized_fp][best_match[1]] >= MatchFirstNameThreshold
    THEN DictGet(candidates_map, best_match[1])
    ELSE None

\* process.extractOne(normalized_fp, candidate_keys, scorer=token_sort_ratio):
\* the first key with the highest score, as <<key, score>>
ExtractOneKey(normalized_fp, candidates_map) ==
    FirstBestScored(candidates_map,
        [i \in DOMAIN candidates_map |->
            key_scores[normalized_fp][candidates_map[i][1]]])

\* extractOne and the validation of its result; extractOne of no candidates
\* is None
FuzzyAmongKeys(candidates_map, normalized_fp) ==
    IF candidates_map = <<>> THEN None
    ELSE FuzzyAccepted(candidates_map, normalized_fp,
                       ExtractOneKey(normalized_fp, candidates_map))

\* "Try fuzzy matching on normalized names": the id, or None
FuzzyMatch(fantasypros_player) ==
    FuzzyAmongKeys(CandidatesMap(fantasypros_player.position),
                   Normalized(fantasypros_player.name))

\* normalized.split(" ")[-1]
LastToken(s) == IF Split(s) = <<>> THEN <<>> ELSE Split(s)[Len(Split(s))]

\* _normalize_name(sp.get('last_name', ''))
NormalizedLast(sleeper_player) ==
    IF sleeper_player.last_name = None THEN <<>>
    ELSE Normalized(sleeper_player.last_name)

\* fallback_candidates (lines 388-393)
FallbackCandidates(last_name, team, pos) ==
    IF last_name # <<>> /\ team # "" /\ team # "FA" /\ pos # ""
    THEN FilterSeq(sleeper_ids,
             { id \in Range(sleeper_ids) :
                 /\ NormalizedLast(sleeper_players[id]) = last_name
                 /\ Upper(sleeper_players[id].team) = team
                 /\ Upper(sleeper_players[id].position) = pos })
    ELSE <<>>

\* The first of the candidates, however many there are
OnlyCandidateGuessed(fallback_candidates) ==
    IF fallback_candidates # <<>> THEN fallback_candidates[1] ELSE None

\* "if len(fallback_candidates) == 1"
OnlyCandidate(fallback_candidates) ==
    IF Len(fallback_candidates) = 1 THEN fallback_candidates[1] ELSE None

\* "Fallback: try last-name + team + position heuristic": the id, or None
FallbackMatch(fantasypros_player) ==
    OnlyCandidate(FallbackCandidates(LastToken(Normalized(fantasypros_player.name)),
                                     Upper(fantasypros_player.team),
                                     Upper(fantasypros_player.position)))

\* the player of the current pass of the loop
fantasypros_player == self_players[fp_index]

\* sleeper_id is assigned, the player is counted, and the loop continues
\* with the next player
Matched(id) ==
    /\ self_players' = [self_players EXCEPT ![fp_index].sleeper_id = id]
    /\ matched_count' = matched_count + 1
    /\ fp_index' = fp_index + 1
    /\ pc' = "m_exact"
    /\ UNCHANGED unmatched_players

\* the strategy failed: the next one is tried
TryNext(next) ==
    /\ pc' = next
    /\ UNCHANGED resolver_vars

\* M_Exact, were its `continue` missing
M_ExactFallingThrough ==
    /\ pc = "m_exact"
    /\ fp_index <= Len(self_players)
    /\ IF ExactMatch(fantasypros_player) # None
       THEN /\ self_players' =
                   [self_players EXCEPT
                       ![fp_index].sleeper_id = ExactMatch(fantasypros_player)]
            /\ matched_count' = matched_count + 1
            /\ pc' = "m_normalized"
            /\ UNCHANGED <<fp_index, unmatched_players>>
       ELSE TryNext("m_normalized")
    /\ UNCHANGED <<inputs, weekly_locals, starters, bench, flex_lists, analysis,
                   optimal_locals, ros_vars, normalizer_vars>>

M_Exact ==
    /\ pc = "m_exact"
    /\ fp_index <= Len(self_players)
    /\ IF ExactMatch(fantasypros_player) # None
       THEN Matched(ExactMatch(fantasypros_player))
       ELSE TryNext("m_normalized")
    /\ UNCHANGED <<inputs, weekly_locals, starters, bench, flex_lists, analysis,
                   optimal_locals, ros_vars, normalizer_vars>>

M_Normalized ==
    /\ pc = "m_normalized"
    /\ IF NormalizedMatch(fantasypros_player) # None
       THEN Matched(NormalizedMatch(fantasypros_player))
       ELSE TryNext("m_fuzzy")
    /\ UNCHANGED <<inputs, weekly_locals, starters, bench, flex_lists, analysis,
                   optimal_locals, ros_vars, normalizer_vars>>

M_Fuzzy ==
    /\ pc = "m_fuzzy"
    /\ IF FuzzyMatch(fantasypros_player) # None
       THEN Matched(FuzzyMatch(fantasypros_player))
       ELSE TryNext("m_fallback")
    /\ UNCHANGED <<inputs, weekly_locals, starters, bench, flex_lists, analysis,
                   optimal_locals, ros_vars, normalizer_vars>>

\* the last strategy: a player it does not match is listed as unmatched
M_Fallback ==
    /\ pc = "m_fallback"
    /\ IF FallbackMatch(fantasypros_player) # None
       THEN Matched(FallbackMatch(fantasypros_player))
       ELSE /\ unmatched_players' = Append(unmatched_players, fantasypros_player)
            /\ fp_index' = fp_index + 1
            /\ pc' = "m_exact"
            /\ UNCHANGED <<self_players, matched_count>>
    /\ UNCHANGED <<inputs, weekly_locals, starters, bench, flex_lists, analysis,
                   optimal_locals, ros_vars, normalizer_vars>>

\* the loop is over: the counts are printed and match_players returns
\* (drafted_sleeper_ids is empty in these calls: no drafted status is
\* applied again)
M_Return ==
    /\ pc = "m_exact"
    /\ fp_index > Len(self_players)
    /\ pc' = "m_done"
    /\ UNCHANGED <<inputs, weekly_locals, starters, bench, flex_lists, analysis,
                   optimal_locals, ros_vars, tool_vars>>

\* ------------------------------------------------------------------------
\* Calls of _normalize_name (lines 45-66)
\* ------------------------------------------------------------------------

\* a Python value: its type and, for a string, its characters; for another
\* type, the characters of its literal
PyStr(chars) == [type |-> "str", value |-> chars]
PyValue(type, literal) == [type |-> type, value |-> literal]

\* bool(value), as in `if not name`
Truth(arg) ==
    IF arg.type = "str" THEN arg.value # <<>>
    ELSE IF arg.type = "NoneType" THEN FALSE
    ELSE IF arg.type = "int" THEN arg.value # <<"0">>
    ELSE arg.value # <<"[", "]">>

\* how a call ends: it returns a string or raises
ReturnedString(chars) == [kind |-> "returned", value |-> chars]
Raised(exception) == [kind |-> exception, value |-> <<>>]
NoOutcome == [kind |-> "none", value |-> <<>>]

\* "if not name: return ''"
EmptyReturned(arg) == ~Truth(arg)

\* the outcome of _normalize_name(arg): name.lower() raises AttributeError on
\* a value that has no such method
Outcome(arg) ==
    IF EmptyReturned(arg) THEN ReturnedString(<<>>)
    ELSE IF arg.type # "str" THEN Raised("AttributeError")
    ELSE ReturnedString(normalize_name(arg.value))

\* _normalize_name is called on the argument, or on what it returned before
N_Normalize ==
    /\ pc \in {"n_call", "n_again"}
    /\ name_out' = Outcome(name_arg)
    /\ pc' = IF Outcome(name_arg).kind # "returned" THEN "n_raised"
             ELSE IF pc = "n_call" THEN "n_returned" ELSE "n_twice"
    /\ UNCHANGED <<inputs, weekly_locals, starters, bench, flex_lists, analysis,
                   optimal_locals, ros_vars, resolver_vars, name_arg>>

\* the caller passes the returned string to _normalize_name again
N_Again ==
    /\ pc = "n_returned"
    /\ name_arg' = PyStr(name_out.value)
    /\ pc' = "n_again"
    /\ UNCHANGED <<inputs, weekly_locals, starters, bench, flex_lists, analysis,
                   optimal_locals, ros_vars, resolver_vars, name_out>>

\* ------------------------------------------------------------------------
\* The calls that are analysed
\* ------------------------------------------------------------------------

\* the longest list of ranked offensive rows
MaxRankings == 3
\* the longest list of rest-of-season rows
MaxRos == 3
\* the longest list of ranked rows of which some are outside the regular shape
MaxOdd == 2
\* the longest list of rest-of-season rows within a session of the interface
MaxSessionRos == 2
\* the longest list of ranked defenses or kickers that is varied
MaxDefK == 3
\* the longest list of players (self.players) that is matched
MaxPlayers == 2
\* the longest name, of the characters below, that is normalized
MaxNameLen == 4

\* the POS column of a rest-of-season name: the directory's position
BaseOfRos(name) ==
    IF name \in {"Bo Ra", "Cy Ra", "Hu Ra"} THEN "RB"
    ELSE IF name \in {"Di Wu", "Ed Wu", "Wim Wu"} THEN "WR"
    ELSE "K"

Row(name, pos) == [name |-> name, pos |-> pos, team |-> ""]
TeamRow(name, pos, team) == [name |-> name, pos |-> pos, team |-> team]

\* Ranked offensive rows.  With the roster and league below: Al Po, Bo Ra
\* and Di Wu are the user's; Hu Ra is on another roster; the others are free.
OffenseRows ==
    { Row("Al Po", "QB1"), Row("Gus Qi", "QB3"),
      Row("Bo Ra", "RB1"), Row("Cy Ra", "RB2"), Row("Hu Ra", "RB3"),
      Row("Di Wu", "WR1"), Row("Ed Wu", "WR2"),
      Row("Fy Te", "TE1") }

\* Rows outside the regular shape: a second spelling of a roster player, a
\* misspelt roster player (found by fuzzy match), an unknown player, a
\* player ranked at a position other than the directory's, a kicker in the
\* offensive list, a row without a name and a list element that is no mapping.
OddRows ==
    { Row("al po", "QB2"), Row("Jo Harrisons", "TE2"),
      Row("Zed Ix", "WR3"), Row("Bo Ra", "WR3"), Row("Ki Ko", "K"),
      Row("", "RB1"), NotARow }

\* the user's roster; "99" is not in the directory
UserRoster == <<"11", "21", "31", "42", "51", "61", "99">>
\* every roster of the league: the user's and one other
LeagueRosters == UserRoster \o <<"23", "62">>

DstRankings == <<TeamRow("Dallas", "DST", "DAL"), TeamRow("Miami", "DST", "MIA"),
                 TeamRow("Denver", "DST", "DEN")>>
KRankings == <<TeamRow("Ka Ko", "K", "DAL"), TeamRow("Ki Ko", "K", "DEN")>>

\* league formats (roster_settings); BN is a slot name the engine ignores
Formats ==
    { <<>>,
      << <<"QB", 1>>, <<"RB", 1>>, <<"FLEX", 1>>, <<"K", 1>>, <<"DEF", 1>>, <<"BN", 2>> >>,
      << <<"SUPER_FLEX", 1>>, <<"WRRB_FLEX", 1>> >>,
      << <<"RB", 1>>, <<"WR", 1>>, <<"WRRBTE_FLEX", 1>>, <<"DEF", 1>> >>,
      << <<"FLEX", 1>>, <<"WRRB_FLEX", 1>>, <<"TE", 0>>, <<"K", 2>> >>,
      << <<"TE", 1>>, <<"RB", 2>> >>,
      << <<"WRRB_FLEX", 2>>, <<"QB", 1>> >>,
      << <<"WR", 1>>, <<"SUPER_FLEX", 2>> >> }

\* the injective sequences over a set of rows, up to a length
RowLists(rows, maxlen) ==
    { s \in UNION { [1..n -> rows] : n \in 0..maxlen } :
        \A i, j \in DOMAIN s : i # j => s[i] # s[j] }

EmptyAnalysis ==
    [starters |-> <<>>, bench |-> <<>>, defenses |-> <<>>, kickers |-> <<>>,
     waiver_defenses |-> <<>>, waiver_kickers |-> <<>>]

EmptyResult ==
    [optimal_starters |-> <<>>, free_agent_upgrades |-> <<>>,
     available_free_agents |-> <<>>]

EmptyRecommendations ==
    [user_players |-> <<>>, free_agents |-> <<>>,
     position_recommendations |-> [k \in DOMAIN RosPositions |-> <<>>],
     best_adds |-> <<>>, worst_drops |-> <<>>]

\* no argument: _normalize_name is not called
NoName == PyStr(<<>>)

\* no analysis is called
NothingAnalysed ==
    /\ arg_types = WellTyped
    /\ op_rankings = <<>>
    /\ dst_rankings = <<>>
    /\ k_rankings = <<>>
    /\ roster_settings = <<>>
    /\ user_players = <<>>
    /\ all_league_players = <<>>
    /\ ros_rankings = <<>>
    /\ user_offensive_players = <<>>
    /\ starters = <<>>
    /\ sorted_starters = <<>>
    /\ bench = <<>>
    /\ all_flex_players = <<>>
    /\ wrrbte_flex_players = <<>>
    /\ wrrb_flex_players = <<>>
    /\ analysis = EmptyAnalysis
    /\ all_available_players = <<>>
    /\ optimal_starters = <<>>
    /\ result = EmptyResult
    /\ user_ros_players = <<>>
    /\ free_agents = <<>>
    /\ recommendations = EmptyRecommendations

\* the locals of every function before it runs
LocalsEntered ==
    /\ user_offensive_players = <<>>
    /\ starters = <<>>
    /\ sorted_starters = <<>>
    /\ bench = <<>>
    /\ all_flex_players = <<>>
    /\ wrrbte_flex_players = <<>>
    /\ wrrb_flex_players = <<>>
    /\ analysis = EmptyAnalysis
    /\ all_available_players = <<>>
    /\ optimal_starters = <<>>
    /\ result = EmptyResult
    /\ user_ros_players = <<>>
    /\ free_agents = <<>>
    /\ recommendations = EmptyRecommendations
    /\ self_players = <<>>
    /\ fp_index = 1
    /\ matched_count = 0
    /\ unmatched_players = <<>>
    /\ name_arg = NoName
    /\ name_out = NoOutcome

\* a call with arguments of the expected types
Entered ==
    /\ LocalsEntered
    /\ arg_types = WellTyped

\* regular rankings against every format
InitRegular ==
    /\ op_rankings \in RowLists(OffenseRows, MaxRankings)
    /\ roster_settings \in Formats
    /\ dst_rankings = DstRankings
    /\ k_rankings = KRankings
    /\ user_players = UserRoster
    /\ all_league_players = LeagueRosters
    /\ ros_rankings = <<>>
    /\ Entered
    /\ pc = "start"

\* the ranks of the rest-of-season rows: the RK column, which may repeat
RosRanks == {1, 2, 3}

RosRow(name, rank) ==
    [name |-> name, position |-> BaseOfRos(name), team |-> "", rank |-> rank]

\* the names of the rest-of-season rankings that are analysed
RosNames == {"Bo Ra", "Cy Ra", "Hu Ra", "Di Wu", "Ed Wu", "Ki Ko"}

\* rest-of-season rankings of distinct names, in any order
RosLists(maxlen) ==
    { s \in UNION { [1..n -> { RosRow(nm, rk) : nm \in RosNames, rk \in RosRanks }] :
                      n \in 0..maxlen } :
        \A i, j \in DOMAIN s : i # j => s[i].name # s[j].name }

\* a call of analyze_ros_recommendations
InitRos ==
    /\ ros_rankings \in RosLists(MaxRos)
    /\ user_players = UserRoster
    /\ all_league_players = LeagueRosters
    /\ op_rankings = <<>>
    /\ dst_rankings = <<>>
    /\ k_rankings = <<>>
    /\ roster_settings = <<>>
    /\ Entered
    /\ pc = "r_start"

\* the format and the ranked players of the specification's flex example
ExampleFormat == << <<"QB", 1>>, <<"RB", 2>>, <<"WR", 2>>, <<"FLEX", 1>> >>
ExampleRows == << Row("Al Po", "QB1"), Row("Bo Ra", "RB1"), Row("Cy Ra", "RB2"),
                  Row("Di Wu", "WR1"), Row("Ed Wu", "WR2"), Row("Hu Ra", "RB3") >>
\* a format of fixed slots only
PlainFormat == << <<"RB", 1>>, <<"WR", 1>> >>
MoreFormats == Formats \cup {ExampleFormat, PlainFormat}

\* a roster that holds every player of the example
DeepRoster == <<"11", "21", "22", "23", "31", "32">>

\* the sub-lists of a list, order kept
SubLists(s) ==
    { LET idx == FilterSeq([i \in DOMAIN s |-> i], I)
      IN  [k \in DOMAIN idx |-> s[idx[k]]] : I \in SUBSET DOMAIN s }

\* a deep roster: the example's rankings and every sub-list of them
InitDeepRoster ==
    /\ op_rankings \in SubLists(ExampleRows)
    /\ roster_settings \in MoreFormats
    /\ dst_rankings = DstRankings
    /\ k_rankings = KRankings
    /\ user_players = DeepRoster
    /\ all_league_players = DeepRoster
    /\ ros_rankings = <<>>
    /\ Entered
    /\ pc = "start"

\* two roster players and three free agents, in every order
WaiverRows ==
    { Row("Bo Ra", "RB1"), Row("Di Wu", "WR1"), Row("Cy Ra", "RB2"),
      Row("Ed Wu", "WR2"), Row("Fy Te", "TE1") }

InitFreeAgents ==
    /\ op_rankings \in { s \in RowLists(WaiverRows, Cardinality(WaiverRows)) :
                           Len(s) >= Cardinality(WaiverRows) - 1 }
    /\ roster_settings \in MoreFormats
    /\ dst_rankings = DstRankings
    /\ k_rankings = KRankings
    /\ user_players = UserRoster
    /\ all_league_players = LeagueRosters
    /\ ros_rankings = <<>>
    /\ Entered
    /\ pc = "start"

\* short rankings of which at least one row is outside the regular shape
InitOdd ==
    /\ op_rankings \in
           { s \in RowLists(OddRows \cup OffenseRows, MaxOdd) :
               \E i \in DOMAIN s : s[i] \in OddRows }
    /\ roster_settings \in Formats
    /\ dst_rankings = DstRankings
    /\ k_rankings = KRankings
    /\ user_players = UserRoster
    /\ all_league_players = LeagueRosters
    /\ ros_rankings = <<>>
    /\ Entered
    /\ pc = "start"

\* a session of the interface: the lineup analyses, then the rest-of-season one
InitSession ==
    /\ op_rankings = << Row("Cy Ra", "RB1"), Row("Bo Ra", "RB2") >>
    /\ roster_settings = PlainFormat
    /\ dst_rankings = DstRankings
    /\ k_rankings = KRankings
    /\ user_players = UserRoster
    /\ all_league_players = LeagueRosters
    /\ ros_rankings \in RosLists(MaxSessionRos) \ {<<>>}
    /\ Entered
    /\ pc = "start"

\* the specification's rest-of-season example: the user's WR ranked 20, two
\* free-agent WRs ranked 10 and 15, and the user's RB ranked 5
RosExampleRows ==
    { RosRow("Di Wu", 20), RosRow("Ed Wu", 10), RosRow("Wim Wu", 15),
      RosRow("Bo Ra", 5) }

\* the example's rows, or all but one of them, in every order, for the
\* regular roster and for a roster that holds two of the three WRs
InitRosExample ==
    /\ ros_rankings \in { s \in RowLists(RosExampleRows, Cardinality(RosExampleRows)) :
                            Len(s) >= Cardinality(RosExampleRows) - 1 }
    /\ \E l \in { <<UserRoster, LeagueRosters>>, <<DeepRoster, DeepRoster>> } :
          user_players = l[1] /\ all_league_players = l[2]
    /\ op_rankings = <<>>
    /\ dst_rankings = <<>>
    /\ k_rankings = <<>>
    /\ roster_settings = <<>>
    /\ Entered
    /\ pc = "r_start"

\* Ranked defenses: the user's (Denver), another roster's (Dallas), one
\* that nobody holds (Miami), Dallas without its TEAM column, a row without
\* a name and a list element that is no mapping.
DstRows ==
    { TeamRow("Denver", "DST", "DEN"), TeamRow("Dallas", "DST", "DAL"),
      TeamRow("Miami", "DST", "MIA"), TeamRow("Dallas", "DST", ""),
      TeamRow("", "DST", "DAL"), NotARow }

\* Ranked kickers: the user's (Ki Ko, also in a second spelling), one that
\* nobody holds (Ka Ko) and a list element that is no mapping.
KRows ==
    { TeamRow("Ki Ko", "K", "DEN"), TeamRow("ki ko", "K", "DEN"),
      TeamRow("Ka Ko", "K", "DAL"), NotARow }

\* formats with and without kicker and defense slots
DefKFormats ==
    { <<>>,
      << <<"QB", 1>>, <<"K", 1>>, <<"DEF", 1>> >>,
      << <<"DEF", 2>>, <<"K", 0>> >>,
      << <<"K", 2>> >> }

\* <<the user's roster, every roster of the league>>: the regular league, a
\* league whose kickers and defenses are all free, a league in which the
\* other roster holds Ki Ko and Denver, and a league of which the rosters
\* are unknown
DefKLeagues ==
    { <<UserRoster, LeagueRosters>>,
      <<DeepRoster, DeepRoster>>,
      <<(<<"52", "62">>), (<<"52", "62", "51", "61">>)>>,
      <<UserRoster, (<<>>)>> }

\* ranked defenses in every order, against the regular kickers
InitDefenses ==
    /\ dst_rankings \in RowLists(DstRows, MaxDefK)
    /\ k_rankings = KRankings
    /\ roster_settings \in DefKFormats
    /\ \E l \in DefKLeagues : user_players = l[1] /\ all_league_players = l[2]
    /\ op_rankings = << Row("Al Po", "QB1") >>
    /\ ros_rankings = <<>>
    /\ Entered
    /\ pc = "start"

\* ranked kickers in every order, against the regular defenses
InitKickers ==
    /\ k_rankings \in RowLists(KRows, MaxDefK)
    /\ dst_rankings = DstRankings
    /\ roster_settings \in DefKFormats
    /\ \E l \in DefKLeagues : user_players = l[1] /\ all_league_players = l[2]
    /\ op_rankings = << Row("Al Po", "QB1") >>
    /\ ros_rankings = <<>>
    /\ Entered
    /\ pc = "start"

\* Ranked tight ends whose names are near the names of the roster below:
\* scores of 95 with first names at 85 and at 84, a score of 94, and a
\* score of 95 with equal first names
ThresholdRows ==
    { Row("Abcdefghijkno Opqrstuvwxyzabcdefghijk", "TE1"),
      Row("Abcdefghxy Opqrstuvwxyzabcde", "TE2"),
      Row("Jo Harri", "TE1"),
      Row("Jo Harriss", "TE2") }

ThresholdRoster == <<"81", "82", "83">>

\* ranked names at the thresholds of the fuzzy match
InitThresholds ==
    /\ op_rankings \in RowLists(ThresholdRows, MaxOdd)
    /\ roster_settings \in { <<>>, << <<"TE", 1>>, <<"FLEX", 1>> >> }
    /\ dst_rankings = DstRankings
    /\ k_rankings = KRankings
    /\ user_players = ThresholdRoster
    /\ all_league_players = ThresholdRoster
    /\ ros_rankings = <<>>
    /\ Entered
    /\ pc = "start"

\* a call of match_players
InitMatch ==
    /\ self_players \in RowLists(PlayerRows, MaxPlayers)
    /\ fp_index = 1
    /\ matched_count = 0
    /\ unmatched_players = <<>>
    /\ name_arg = NoName
    /\ name_out = NoOutcome
    /\ NothingAnalysed
    /\ pc = "m_exact"

\* the characters of the names that are normalized: letters of the suffix
\* words in both cases, an accented capital, a digit, a space and a full stop
NameChars == {"J", "r", "i", "v", "E+acute", "2", " ", "."}

\* the names of the scenario of the normalizer
ScenarioNames ==
    { <<"P","a","t","r","i","c","k"," ","M","a","h","o","m","e","s"," ","J","r",".">>,
      <<"p","a","t","r","i","c","k"," ","m","a","h","o","m","e","s">> }

\* every string of these characters up to the bound, and the scenario
NameInputs ==
    UNION { [1..n -> NameChars] : n \in 0..MaxNameLen } \cup ScenarioNames

\* arguments that are no strings: None, 0, 123, [] and ['a']
NonStrings ==
    { PyValue("NoneType", <<"N","o","n","e">>),
      PyValue("int", <<"0">>),
      PyValue("int", <<"1","2","3">>),
      PyValue("list", <<"[", "]">>),
      PyValue("list", <<"[", "'", "a", "'", "]">>) }

\* a call of _normalize_name
InitNormalize ==
    /\ name_arg \in { PyStr(chars) : chars \in NameInputs } \cup NonStrings
    /\ name_out = NoOutcome
    /\ self_players = <<>>
    /\ fp_index = 1
    /\ matched_count = 0
    /\ unmatched_players = <<>>
    /\ NothingAnalysed
    /\ pc = "n_call"

\* rankings longer than the cap of the returned free agent list: thirteen
\* ranked players of the directory
LongRows ==
    << Row("Gus Qi", "QB1"), Row("Bo Ra", "RB1"), Row("Hu Ra", "RB2"),
       Row("Di Wu", "WR1"), Row("Ed Wu", "WR2"), Row("Wim Wu", "WR3"),
       Row("Fy Te", "TE1"), Row("Jo Harrison", "TE2"), Row("Ab Smith", "RB3"),
       Row("Cd Smith", "RB3"), Row("Ef Smith", "WR3"), Row("Jo Harris", "TE2"),
       Row("Al Po", "QB2") >>

\* the rosters of the long rankings: the user's, then the whole league's
LongLeagues ==
    { << <<>>, <<>> >>,
      << <<"21", "31">>, <<"21", "31">> >>,
      << <<"21", "31">>, <<"21", "31", "12", "41">> >>,
      << <<"12", "73">>, <<"12", "73">> >> }

\* long rankings: the cap of the free agent list is reached and passed
InitLongRankings ==
    /\ op_rankings \in { SubSeq(LongRows, 1, n) : n \in (FreeAgentCap - 1)..Len(LongRows) }
    /\ roster_settings \in { PlainFormat, ExampleFormat }
    /\ dst_rankings = DstRankings
    /\ k_rankings = KRankings
    /\ \E league \in LongLeagues :
          /\ user_players = league[1]
          /\ all_league_players = league[2]
    /\ ros_rankings = <<>>
    /\ Entered
    /\ pc = "start"

\* ownership lists that leave the user's roster out: no roster at all, and
\* the other rosters of the league only
PartialLeagues == { <<>>, <<"23", "62">> }

\* a call of analyze_ros_recommendations with such an ownership list
InitRosPartialLeague ==
    /\ ros_rankings \in RosLists(MaxSessionRos)
    /\ user_players = UserRoster
    /\ all_league_players \in PartialLeagues
    /\ op_rankings = <<>>
    /\ dst_rankings = <<>>
    /\ k_rankings = <<>>
    /\ roster_settings = <<>>
    /\ Entered
    /\ pc = "r_start"

\* a roster of three ranked players beside three ranked free agents
PairsRoster == <<"21", "31", "32">>
PairsNames == <<"Bo Ra", "Di Wu", "Ed Wu", "Cy Ra", "Hu Ra", "Wim Wu">>

\* a call of analyze_ros_recommendations on three against three, the six
\* ranks free
InitRosPairs ==
    /\ \E rk \in [DOMAIN PairsNames -> RosRanks] :
          ros_rankings = [i \in DOMAIN PairsNames |-> RosRow(PairsNames[i], rk[i])]
    /\ user_players = PairsRoster
    /\ all_league_players = PairsRoster
    /\ op_rankings = <<>>
    /\ dst_rankings = <<>>
    /\ k_rankings = <<>>
    /\ roster_settings = <<>>
    /\ Entered
    /\ pc = "r_start"

\* The types a caller may pass for the collection arguments.  A value that
\* is no collection of the expected type (None, an int, a list for a
\* mapping) has no rows or entries.
ArgTypes ==
    [weekly_rankings : {"dict", "None", "list", "int"},
     user_players : {"list", "None", "int"},
     sleeper_players : {"dict", "None"},
     roster_settings : {"dict", "None", "list"},
     all_league_players : {"list", "None"}]

\* weekly_rankings as a mapping: <<OP, DST, K>>, with no list, with lists of
\* elements that are no rows, and with usable rows among such elements
RankingsGiven ==
    { << <<>>, <<>>, <<>> >>,
      << <<NotARow>>, <<NotARow>>, <<NotARow>> >>,
      << <<Row("Bo Ra", "RB1"), NotARow, Row("Cy Ra", "RB2")>>,
         DstRankings, KRankings >> }

\* user_players as a list: the roster, no roster, and rosters with an entry
\* that has no player_id
RostersGiven ==
    { UserRoster, <<>>, <<Lacking, "21", "51">>, <<"21", "61", Lacking>> }

\* all_league_players as a list
LeaguesGiven == { LeagueRosters, <<"21", Lacking, "62">> }

\* roster_settings as a mapping
SettingsGiven ==
    { << <<"RB", 1>>, <<"FLEX", 1>>, <<"K", 1>>, <<"DEF", 1>> >>, <<>> }

\* calls with arguments of every type: the lineup analyses, then the
\* rest-of-season analysis when rest-of-season rankings are loaded
InitMalformed ==
    /\ arg_types \in ArgTypes \ {WellTyped}
    /\ \E given \in IF arg_types.weekly_rankings = "dict"
                    THEN RankingsGiven ELSE { << <<>>, <<>>, <<>> >> } :
          /\ op_rankings = given[1]
          /\ dst_rankings = given[2]
          /\ k_rankings = given[3]
    /\ user_players \in IF arg_types.user_players = "list"
                        THEN RostersGiven ELSE { <<>> }
    /\ all_league_players \in IF arg_types.all_league_players = "list"
                              THEN LeaguesGiven ELSE { <<>> }
    /\ roster_settings \in IF arg_types.roster_settings = "dict"
                           THEN SettingsGiven ELSE { <<>> }
    /\ ros_rankings \in { <<>>, <<RosRow("Bo Ra", 1), RosRow("Cy Ra", 2)>> }
    /\ LocalsEntered
    /\ pc = "start"

\* the same calls with well-typed arguments, some entries having no
\* player_id
InitLacking ==
    /\ arg_types = WellTyped
    /\ \E given \in RankingsGiven :
          /\ op_rankings = given[1]
          /\ dst_rankings = given[2]
          /\ k_rankings = given[3]
    /\ user_players \in RostersGiven
    /\ all_league_players \in LeaguesGiven
    /\ roster_settings \in SettingsGiven
    /\ ros_rankings \in { <<>>, <<RosRow("Bo Ra", 1), RosRow("Cy Ra", 2)>> }
    /\ LocalsEntered
    /\ pc = "start"

Init ==
    \/ InitRegular
    \/ InitMalformed
    \/ InitLacking
    \/ InitRosPairs
    \/ InitRosPartialLeague
    \/ InitLongRankings
    \/ InitDeepRoster
    \/ InitFreeAgents
    \/ InitOdd
    \/ InitSession
    \/ InitRos
    \/ InitDefenses
    \/ InitKickers
    \/ InitRosExample
    \/ InitThresholds
    \/ InitMatch
    \/ InitNormalize

Next ==
    \/ W_Offense
    \/ W_DefK
    \/ W_FixedPass
    \/ W_SuperFlex
    \/ W_Flex
    \/ W_WrrbteFlex
    \/ W_WrrbFlex
    \/ W_SortStarters
    \/ W_AddKDst
    \/ O_Pool
    \/ O_Phase1
    \/ O_SuperFlex
    \/ O_Flex
    \/ O_WrrbteFlex
    \/ O_WrrbFlex
    \/ O_AddDefK
    \/ O_Upgrades
    \/ R_UserPlayers
    \/ R_FreeAgents
    \/ R_PositionRecommendations
    \/ R_BestValue
    \/ M_Exact
    \/ M_Normalized
    \/ M_Fuzzy
    \/ M_Fallback
    \/ M_Return
    \/ N_Normalize
    \/ N_Again

Spec == Init /\ [][Next]_vars

\* ------------------------------------------------------------------------
\* Properties of the lineup analyses
\* ------------------------------------------------------------------------

\* analyze_weekly_rankings has returned its analysis
WeeklyReturned ==
    pc \in {"w_done", "o_phase1", "o_superflex", "o_flex", "o_wrrbte",
            "o_wrrb", "o_adddefk", "o_upgrades", "done"}

\* the pool of analyze_optimal_lineup_with_free_agents has been built
PoolBuilt ==
    pc \in {"o_phase1", "o_superflex", "o_flex", "o_wrrbte", "o_wrrb",
            "o_adddefk", "o_upgrades", "done"}

\* the entries of a list other than the appended DEF and K starters
Offensive(list) ==
    FilterSeq(list, { p \in Range(list) : p.position \notin {"DEF", "K"} })

\* the ranked offensive row i names a player of the user's roster
Resolves(i) ==
    /\ IsRow(op_rankings[i])
    /\ Stripped(op_rankings[i].name) # ""
    /\ Stripped(op_rankings[i].pos) # ""
    /\ WeeklyMatch(user_players, Stripped(op_rankings[i].name)) # None

\* the entries of a list made from the ranked row of a given rank
EntriesOfRank(list, rank) == { k \in DOMAIN list : list[k].rank = rank }

\* C1: when analyze_weekly_rankings returns, every ranked offensive row that
\* resolves to a player of the user's roster has exactly one entry across
\* the offensive starters and the bench together (it carries the id of that
\* player), and a row that resolves to no roster player has no entry in
\* either list.
C1_ResolvedEntryOnce ==
    WeeklyReturned =>
        /\ \A i \in DOMAIN op_rankings :
              Cardinality(EntriesOfRank(Offensive(analysis.starters), i))
                + Cardinality(EntriesOfRank(analysis.bench, i))
              = IF Resolves(i) THEN 1 ELSE 0
        /\ \A p \in Range(Offensive(analysis.starters)) \cup Range(analysis.bench) :
              /\ p.rank \in DOMAIN op_rankings
              /\ p.sleeper_id =
                     WeeklyMatch(user_players, Stripped(op_rankings[p.rank].name))

\* a resolved row started in a flex slot, another left on the bench, and a
\* row that resolved to no roster player
C1_Witness ==
    /\ WeeklyReturned
    /\ \E s \in Range(analysis.starters) : s.flex_slot # None
    /\ analysis.bench # <<>>
    /\ \E i \in DOMAIN op_rankings : ~Resolves(i)

\* starters of a position are ranked no worse than the bench of that position
OutrankBench(sts, bn) ==
    \A s \in Range(sts) : \A b \in Range(bn) :
        s.position = b.position => s.rank <= b.rank

\* C2: after the fixed-position pass and all flex passes of
\* analyze_weekly_rankings, for every base position P, every starter whose
\* base position is P has a rank less than or equal to the rank of every
\* bench player whose base position is P.
C2_StartersOutrankBench ==
    /\ pc \in {"w_sort", "w_adddefk"} => OutrankBench(starters, bench)
    /\ WeeklyReturned => OutrankBench(Offensive(analysis.starters), analysis.bench)

\* a flex starter and a bench player of the same base position
C2_Witness ==
    /\ WeeklyReturned
    /\ \E s \in Range(analysis.starters) : \E b \in Range(analysis.bench) :
          s.flex_slot # None /\ s.position = b.position /\ s.rank < b.rank

\* the slot names the engine recognises
RecognisedSlots ==
    {"QB", "RB", "WR", "TE", "SUPER_FLEX", "FLEX", "WRRBTE_FLEX", "WRRB_FLEX",
     "DEF", "K"}

\* the number of starters in a slot
StartersIn(list, slot) ==
    Cardinality({ k \in DOMAIN list : SlotOf(list[k]) = slot })

RECURSIVE DeclaredTotal(_, _)
\* the sum of the counts that the settings declare for recognised slots
DeclaredTotal(settings, i) ==
    IF i > Len(settings) THEN 0
    ELSE (IF settings[i][1] \in RecognisedSlots THEN settings[i][2] ELSE 0)
         + DeclaredTotal(settings, i + 1)

\* the starters are within the counts that the settings declare
WithinCounts(sts) ==
    /\ \A slot \in RecognisedSlots :
          StartersIn(sts, slot) <= SettingsGet(roster_settings, slot)
    /\ \A s \in Range(sts) : SlotOf(s) \in RecognisedSlots
    /\ Len(sts) <= DeclaredTotal(roster_settings, 1)

\* C3: in analyze_weekly_rankings, after every pass of the allocation and
\* in the analysis that is returned, the number of starters in each
\* recognised slot (QB, RB, WR, TE, SUPER_FLEX, FLEX, WRRBTE_FLEX, WRRB_FLEX,
\* DEF, K) is at most the count the settings declare for it, so the starters
\* are at most the sum of the counts; every starter is in a recognised slot,
\* so a slot of count 0 and a slot of an unrecognised name hold no starter.
\* (Such settings are analysed like any other: the lookups of a slot's
\* count default to 0.)
C3_SlotCountsRespected ==
    /\ pc \in {"w_superflex", "w_flex", "w_wrrbte", "w_wrrb", "w_sort", "w_adddefk"}
          => WithinCounts(starters)
    /\ WeeklyReturned => WithinCounts(analysis.starters)

\* settings with an unrecognised slot name have been analysed: a slot is
\* filled to its count and a bench player of that slot's position is left out
C3_Witness ==
    /\ WeeklyReturned
    /\ \E i \in DOMAIN roster_settings : roster_settings[i][1] \notin RecognisedSlots
    /\ \E b \in Range(analysis.bench) :
          /\ SettingsGet(roster_settings, b.position) > 0
          /\ StartersIn(analysis.starters, b.position)
                = SettingsGet(roster_settings, b.position)

\* the base positions that may fill a flexible slot
FlexEligibility(slot) ==
    IF slot = "SUPER_FLEX" THEN {"QB", "RB", "WR", "TE"}
    ELSE IF slot \in {"FLEX", "WRRBTE_FLEX"} THEN {"RB", "WR", "TE"}
    ELSE {"RB", "WR"}

\* a starter is in a flexible slot it is eligible for, or in the fixed slot
\* of its own base position; the slot is one the settings declare
WellPlaced(s) ==
    IF s.flex_slot # None
    THEN /\ s.flex_slot \in {"SUPER_FLEX", "FLEX", "WRRBTE_FLEX", "WRRB_FLEX"}
         /\ s.position \in FlexEligibility(s.flex_slot)
         /\ SettingsGet(roster_settings, s.flex_slot) > 0
    ELSE /\ s.position \in {"QB", "RB", "WR", "TE", "DEF", "K"}
         /\ SettingsGet(roster_settings, s.position) > 0

\* C4: every starter in a flexible slot is eligible for it (SUPER_FLEX: QB,
\* RB, WR, TE; FLEX and WRRBTE_FLEX: RB, WR, TE; WRRB_FLEX: RB, WR) and every
\* starter in a fixed slot is in the declared slot of its own base position,
\* in the starters of analyze_weekly_rankings and in the optimal_starters of
\* analyze_optimal_lineup_with_free_agents.
C4_StartersEligible ==
    /\ WeeklyReturned => \A s \in Range(analysis.starters) : WellPlaced(s)
    /\ pc = "done" => \A s \in Range(result.optimal_starters) : WellPlaced(s)

\* both lineups hold a flex starter, the optimal one a free agent in a flex
\* slot and a starter in a fixed slot
C4_Witness ==
    /\ pc = "done"
    /\ \E s \in Range(analysis.starters) : s.flex_slot # None
    /\ \E s \in Range(result.optimal_starters) :
          s.flex_slot # None /\ s.is_free_agent
    /\ \E s \in Range(result.optimal_starters) :
          s.flex_slot = None /\ s.position \in {"QB", "RB", "WR", "TE"}

\* the bench players eligible for a slot, best rank first
EligibleOnBench(bn, slot) ==
    SortByRank(FilterSeq(bn, { p \in Range(bn) : p.position \in FlexEligibility(slot) }))

\* the starters and the bench after the pass of one flex slot, given the
\* players it takes
AfterTaking(sts, bn, taken, slot) ==
    <<sts \o [k \in DOMAIN taken |-> [taken[k] EXCEPT !.flex_slot = slot]],
      FilterSeq(bn, Range(bn) \ Range(taken))>>

\* the pass of a flex slot takes, for each of its instances, the best-ranked
\* eligible player that is on the bench
PassTakesBest(slot) ==
    <<starters', bench'>> =
        AfterTaking(starters, bench,
                    Take(EligibleOnBench(bench, slot),
                         SettingsGet(roster_settings, slot)),
                    slot)

\* the flex passes of analyze_weekly_rankings, in their order
FlexPassesInOrder ==
    /\ pc = "w_superflex" => PassTakesBest("SUPER_FLEX") /\ pc' = "w_flex"
    /\ pc = "w_flex" => PassTakesBest("FLEX") /\ pc' = "w_wrrbte"
    /\ pc = "w_wrrbte" => PassTakesBest("WRRBTE_FLEX") /\ pc' = "w_wrrb"
    /\ pc = "w_wrrb" => PassTakesBest("WRRB_FLEX") /\ pc' = "w_sort"

\* <<rank, slot>> of every entry of a list
RankAndSlot(list) == [k \in DOMAIN list |-> <<list[k].rank, SlotOf(list[k])>>]

\* requirements {QB:1, RB:2, WR:2, FLEX:1} and players QB1, RB2, RB3, WR4,
\* WR5, RB6: the fixed slots take the first five, FLEX takes RB6, the bench
\* is empty
FlexExample ==
    (/\ WeeklyReturned
     /\ op_rankings = ExampleRows
     /\ roster_settings = ExampleFormat
     /\ user_players = DeepRoster)
    => /\ RankAndSlot(analysis.starters)
            = << <<1, "QB">>, <<2, "RB">>, <<3, "RB">>, <<4, "WR">>,
                 <<5, "WR">>, <<6, "FLEX">> >>
       /\ analysis.starters[Len(analysis.starters)].position = "RB"
       /\ analysis.bench = <<>>

\* C5: the flex passes run in the order SUPER_FLEX, FLEX, WRRBTE_FLEX,
\* WRRB_FLEX; each pass gives every instance of its slot the best-ranked
\* player that is eligible for it and on the bench when the pass runs, and
\* takes that player off the bench, so that no later pass can take it; and
\* the worked example (QB1, RB2, RB3, WR4, WR5, RB6 under {QB:1, RB:2, WR:2,
\* FLEX:1}) ends with RB6 in FLEX and an empty bench.
C5_FlexPassesTakeBest ==
    [][FlexPassesInOrder]_vars /\ []FlexExample

\* the worked example has been analysed: RB6 is the FLEX starter
C5_Witness ==
    /\ WeeklyReturned
    /\ op_rankings = ExampleRows
    /\ roster_settings = ExampleFormat
    /\ user_players = DeepRoster
    /\ \E s \in Range(analysis.starters) : s.flex_slot = "FLEX" /\ s.rank = 6
    /\ analysis.bench = <<>>

\* improvement is the rank difference of the pair and is positive
Improves(u) ==
    /\ u.improvement = u.drop.rank - u.add.rank
    /\ u.improvement > 0

\* C6: for every upgrade in free_agent_upgrades of
\* analyze_optimal_lineup_with_free_agents and every recommendation in
\* position_recommendations of analyze_ros_recommendations, improvement
\* equals drop.rank minus add.rank and is strictly greater than 0.
C6_ImprovementPositive ==
    /\ \A u \in Range(result.free_agent_upgrades) : Improves(u)
    /\ \A k \in DOMAIN recommendations.position_recommendations :
          \A r \in Range(recommendations.position_recommendations[k]) : Improves(r)

\* a session in which both analyses have emitted a recommendation
C6_Witness ==
    /\ pc = "r_done"
    /\ result.free_agent_upgrades # <<>>
    /\ \E k \in DOMAIN recommendations.position_recommendations :
          recommendations.position_recommendations[k] # <<>>

\* C7: when analyze_optimal_lineup_with_free_agents returns, the add of
\* every upgrade is a free agent that is in optimal_starters and whose id is
\* the id of no current starter; the drop is a current starter, not DEF or
\* K, whose id is the id of no optimal starter; no current starter is the
\* drop of two upgrades and no free agent is the add of two upgrades.
C7_UpgradesPairAddsWithDrops ==
    pc = "done" =>
        /\ \A u \in Range(result.free_agent_upgrades) :
              /\ u.add.is_free_agent
              /\ u.add \in Range(result.optimal_starters)
              /\ u.add.sleeper_id \notin PlayerIds(analysis.starters)
              /\ u.drop \in Range(analysis.starters)
              /\ u.drop.position \notin {"DEF", "K"}
              /\ u.drop.sleeper_id \notin PlayerIds(result.optimal_starters)
        /\ \A i, j \in DOMAIN result.free_agent_upgrades :
              i # j =>
                 /\ result.free_agent_upgrades[i].drop
                       # result.free_agent_upgrades[j].drop
                 /\ result.free_agent_upgrades[i].add
                       # result.free_agent_upgrades[j].add

\* three free agents have displaced starters and two upgrades were paired
C7_Witness ==
    /\ pc = "done"
    /\ Len(result.free_agent_upgrades) >= 2
    /\ Cardinality({ s \in Range(result.optimal_starters) :
                       s.is_free_agent
                       /\ s.sleeper_id \notin PlayerIds(analysis.starters) }) >= 3

\* the eligibility that the pairing tests: the same base position, or both
\* of RB, WR, TE with one of the two in a flex slot
SharesEligibility(a, d) ==
    \/ a.position = d.position
    \/ /\ a.flex_slot # None \/ d.flex_slot # None
       /\ a.position \in {"RB", "WR", "TE"}
       /\ d.position \in {"RB", "WR", "TE"}

\* the same base position, or both flex-eligible
BothFlexEligible(a, d) ==
    \/ a.position = d.position
    \/ /\ a.position \in {"RB", "WR", "TE"}
       /\ d.position \in {"RB", "WR", "TE"}

\* the current starters that the optimal lineup leaves out, DEF and K aside
Droppable ==
    { d \in Range(analysis.starters) :
        /\ d.position \notin {"DEF", "K"}
        /\ d.sleeper_id \notin PlayerIds(result.optimal_starters) }

\* the drops consumed by the adds that precede index i of optimal_starters
Consumed(i) ==
    { u.drop : u \in { v \in Range(result.free_agent_upgrades) :
                         \E j \in 1..(i - 1) : result.optimal_starters[j] = v.add } }

\* the added free agent a is paired with the candidate of the largest
\* improvement, and with none when there is no candidate
PairedWithBestOf(a, candidates) ==
    IF a.replaces_player # <<>>
    THEN /\ a.replaces_player[1] \in candidates
         /\ \A c \in candidates : c.rank <= a.replaces_player[1].rank
         /\ \E u \in Range(result.free_agent_upgrades) :
               u.add = a /\ u.drop = a.replaces_player[1]
    ELSE candidates = {}

\* every added free agent is paired with the best of the droppable starters
\* not yet consumed that share eligibility with it and that it improves on
PairedWithBest(as_stated) ==
    pc = "done" =>
        \A i \in DOMAIN result.optimal_starters :
            (/\ result.optimal_starters[i].is_free_agent
             /\ result.optimal_starters[i].sleeper_id
                    \notin PlayerIds(analysis.starters))
            => PairedWithBestOf(
                   result.optimal_starters[i],
                   { d \in Droppable \ Consumed(i) :
                       /\ IF as_stated
                          THEN BothFlexEligible(result.optimal_starters[i], d)
                          ELSE SharesEligibility(result.optimal_starters[i], d)
                       /\ d.rank - result.optimal_starters[i].rank > 0 })

\* C8 (as amended): each added free agent is paired only with a dropped
\* player that shares eligibility with it, which is: the same base position,
\* or both of base position RB, WR or TE with at least one of the two in a
\* flex slot; and among the dropped players not yet consumed that share
\* eligibility it is paired with the one of the largest positive rank
\* improvement.
C8_PairedWithBestSharing ==
    PairedWithBest(FALSE)

\* C8 (as stated): each added free agent is paired with the dropped player
\* of the largest positive rank improvement among those, not yet consumed,
\* of the same base position or flex-eligible as it is.
C8_AsStated ==
    PairedWithBest(TRUE)

\* an added free agent is paired with a dropped player of another position
C8_Witness ==
    /\ pc = "done"
    /\ \E u \in Range(result.free_agent_upgrades) :
          u.add.position # u.drop.position

\* the base positions that may fill a slot
SlotEligibility(slot) ==
    IF slot \in {"QB", "RB", "WR", "TE"} THEN {slot} ELSE FlexEligibility(slot)

\* <<slots filled, sum of ranks>>: a is at least as good as b
AtLeastAsGood(a, b) ==
    \/ a[1] > b[1]
    \/ a[1] = b[1] /\ a[2] <= b[2]

\* the best of a set of lineups
BestOf(lineups) ==
    CHOOSE a \in lineups : \A b \in lineups : AtLeastAsGood(a, b)

RECURSIVE BestLineup(_, _, _)
\* <<slots filled, sum of ranks>> of the best assignment of the players
\* pool[i], pool[i+1], ... to the slots of the given free capacities: the
\* player is left out, or takes a free slot it is eligible for
BestLineup(pool, i, capacity) ==
    IF i > Len(pool) THEN <<0, 0>>
    ELSE BestOf(
           {BestLineup(pool, i + 1, capacity)}
           \cup { <<BestLineup(pool, i + 1, [capacity EXCEPT ![s] = @ - 1])[1] + 1,
                    BestLineup(pool, i + 1, [capacity EXCEPT ![s] = @ - 1])[2]
                        + pool[i].rank>> :
                  s \in { t \in DOMAIN capacity :
                            /\ capacity[t] > 0
                            /\ pool[i].position \in SlotEligibility(t) } })

RECURSIVE SumOfRanks(_)
SumOfRanks(list) ==
    IF list = <<>> THEN 0 ELSE Head(list).rank + SumOfRanks(Tail(list))

\* C9: the offensive part of optimal_starters is the best possible
\* combination of the pool for the declared offensive slots: no assignment
\* of pool players to slots they are eligible for fills more slots, or
\* fills as many with a lower sum of ranks.
C9_OptimalIsBest ==
    pc = "done" =>
        <<Len(Offensive(result.optimal_starters)),
          SumOfRanks(Offensive(result.optimal_starters))>>
        = BestLineup(all_available_players, 1,
                     [t \in OrderedSlots |-> SettingsGet(roster_settings, t)])

\* the ranked offensive row i belongs to the pool: it names a directory
\* player, not DEF or K, that is on the user's roster or on no roster
InPool(i) ==
    /\ IsRow(op_rankings[i])
    /\ Stripped(op_rankings[i].name) # ""
    /\ Stripped(op_rankings[i].pos) # ""
    /\ base_position_of(Stripped(op_rankings[i].pos)) \notin {"DEF", "K"}
    /\ OptimalMatch(Stripped(op_rankings[i].name),
                    base_position_of(Stripped(op_rankings[i].pos))) # None
    /\ \/ OptimalMatch(Stripped(op_rankings[i].name),
                       base_position_of(Stripped(op_rankings[i].pos)))
              \in Range(user_players)
       \/ OptimalMatch(Stripped(op_rankings[i].name),
                       base_position_of(Stripped(op_rankings[i].pos)))
              \notin Range(all_league_players)

\* the entry is a player of another roster of the league: by its id, or,
\* for a DEF or K entry without id, by its name or team
OwnedByAnother(p) ==
    \E id \in Range(all_league_players) \ Range(user_players) :
        /\ InDirectory(id)
        /\ \/ id = p.sleeper_id
           \/ /\ p.sleeper_id = None
              /\ sleeper_players[id].position = p.position
              /\ \/ sleeper_players[id].full_name = p.name
                 \/ p.position = "DEF" /\ sleeper_players[id].team = p.team

\* C10: the pool that analyze_optimal_lineup_with_free_agents allocates is
\* exactly the ranked players, not DEF or K, that resolve to an id on the
\* user's roster or to an id on no roster of the league, each once; a
\* player of another roster of the league is never in the pool, in
\* optimal_starters or in available_free_agents.
C10_PoolIsRosterAndFreeAgents ==
    PoolBuilt =>
        /\ { p.rank : p \in Range(all_available_players) }
              = { i \in DOMAIN op_rankings : InPool(i) }
        /\ Len(all_available_players)
              = Cardinality({ i \in DOMAIN op_rankings : InPool(i) })
        /\ \A p \in Range(all_available_players) \cup Range(optimal_starters)
                    \cup Range(result.optimal_starters)
                    \cup Range(result.available_free_agents) :
              ~OwnedByAnother(p)

\* the rankings name a player of another roster; the pool holds a roster
\* player and a free agent, and free agents are returned
C10_Witness ==
    /\ pc = "done"
    /\ \E i \in DOMAIN op_rankings :
          /\ Resolves(i) = FALSE
          /\ IsRow(op_rankings[i])
          /\ Stripped(op_rankings[i].name) = "Hu Ra"
    /\ \E p \in Range(all_available_players) : p.is_on_roster
    /\ \E p \in Range(result.optimal_starters) : p.is_free_agent
    /\ result.available_free_agents # <<>>

\* ------------------------------------------------------------------------
\* Properties of the defenses and kickers of the weekly analysis
\* ------------------------------------------------------------------------

\* the ranked rows of a kind: weekly_rankings['DST'] or weekly_rankings['K']
RankedOf(kind) == IF kind = "DEF" THEN dst_rankings ELSE k_rankings

\* the row has a name
Named(ranking) == IsRow(ranking) /\ Stripped(ranking.name) # ""

\* the code's test of a ranked row of a kind against a held player
SameAs(kind, id, ranking) ==
    IF kind = "DEF"
    THEN SameDefense(id, Stripped(ranking.name), Stripped(ranking.team))
    ELSE SameKickerOnRoster(id, Stripped(ranking.name))

\* the rows of a kind that the analysis takes as entries of the user's
\* roster, and as free-agent entries
RosterRows(kind) ==
    { i \in DOMAIN RankedOf(kind) :
        /\ Named(RankedOf(kind)[i])
        /\ \E id \in Range(user_players) : SameAs(kind, id, RankedOf(kind)[i]) }

FreeAgentRows(kind) ==
    { i \in DOMAIN RankedOf(kind) :
        /\ Named(RankedOf(kind)[i])
        /\ \A id \in Range(user_players) \cup Range(all_league_players) :
              ~SameAs(kind, id, RankedOf(kind)[i]) }

\* the starters of a kind in the returned lineup
StartersOfKind(kind) ==
    FilterSeq(analysis.starters,
              { p \in Range(analysis.starters) : p.position = kind })

\* the least element of a non-empty set of ranks
Best(ranks) == CHOOSE r \in ranks : \A q \in ranks : r <= q

\* the one starter of a kind is the best-ranked of the roster and free-agent
\* entries combined
OneBestStarter(kind) ==
    /\ Len(StartersOfKind(kind)) = 1
    /\ RosterRows(kind) \cup FreeAgentRows(kind) # {}
    /\ LET p == StartersOfKind(kind)[1]
           best == Best(RosterRows(kind) \cup FreeAgentRows(kind))
       IN  /\ p.rank = best
           /\ p.name = Stripped(RankedOf(kind)[best].name)
           /\ p.is_on_roster = (best \in RosterRows(kind))

\* C11, as stated: the returned lineup holds exactly one DEF and exactly one
\* K, each the best-ranked of the roster and free-agent entries combined.
C11_AsStated ==
    WeeklyReturned => OneBestStarter("DEF") /\ OneBestStarter("K")

\* C11, amended: for DEF and for K alike, when roster_settings gives the
\* slot a positive count and there is a roster or free-agent entry of the
\* kind, the returned lineup holds exactly one player of the kind, the
\* best-ranked of the roster and free-agent entries combined; otherwise it
\* holds none.
C11_OneBestPerDeclaredSlot ==
    WeeklyReturned =>
        \A kind \in {"DEF", "K"} :
            IF /\ SettingsGet(roster_settings, kind) > 0
               /\ RosterRows(kind) \cup FreeAgentRows(kind) # {}
            THEN OneBestStarter(kind)
            ELSE StartersOfKind(kind) = <<>>

\* a free-agent defense that outranks the roster's defense starts, and the
\* roster's kicker starts although a free agent is ranked too
C11_Witness ==
    /\ pc = "w_done"
    /\ \E p \in Range(analysis.starters) :
          /\ p.position = "DEF" /\ ~p.is_on_roster /\ p.is_waiver_wire
          /\ RosterRows("DEF") # {} /\ p.rank < Best(RosterRows("DEF"))
    /\ \E p \in Range(analysis.starters) :
          /\ p.position = "K" /\ p.is_on_roster
          /\ FreeAgentRows("K") # {}

\* the directory entry is the defense or kicker that a ranked row names: a
\* defense by its name or its team abbreviation, a kicker by its name up to
\* spelling
Denotes(kind, id, ranking) ==
    /\ InDirectory(id)
    /\ sleeper_players[id].position = kind
    /\ IF kind = "DEF"
       THEN \/ sleeper_players[id].full_name = Stripped(ranking.name)
            \/ /\ Stripped(ranking.team) # ""
               /\ sleeper_players[id].team = Stripped(ranking.team)
       ELSE Normalized(sleeper_players[id].full_name)
                = Normalized(Stripped(ranking.name))

\* the three classes of a ranked row
OnUsersRoster(kind, ranking) ==
    \E id \in Range(user_players) : Denotes(kind, id, ranking)

OwnedByAnotherRoster(kind, ranking) ==
    /\ ~OnUsersRoster(kind, ranking)
    /\ \E id \in Range(all_league_players) : Denotes(kind, id, ranking)

\* the returned lists of a kind: the roster's entries and the waiver
\* suggestions
RosterListOf(kind) ==
    IF kind = "DEF" THEN analysis.defenses ELSE analysis.kickers

WaiverListOf(kind) ==
    IF kind = "DEF" THEN analysis.waiver_defenses ELSE analysis.waiver_kickers

\* the ranks of the entries of a list
RanksOf(list) == { p.rank : p \in Range(list) }

\* C12: each named DEF or K row is taken as an entry of the user's roster
\* exactly when the user holds the player it names, and a row naming a
\* player of another roster of the league is in neither returned list of
\* its kind and is not the starter of its kind.
C12_OwnedNeverSuggested ==
    WeeklyReturned =>
        \A kind \in {"DEF", "K"} : \A i \in DOMAIN RankedOf(kind) :
            Named(RankedOf(kind)[i]) =>
                /\ (i \in RanksOf(RosterListOf(kind)))
                       = OnUsersRoster(kind, RankedOf(kind)[i])
                /\ OwnedByAnotherRoster(kind, RankedOf(kind)[i]) =>
                       /\ i \notin RanksOf(WaiverListOf(kind))
                       /\ i \notin RanksOf(StartersOfKind(kind))

\* ------------------------------------------------------------------------
\* Properties of the rest-of-season recommendations
\* ------------------------------------------------------------------------

\* the position recommendations have been computed
PositionsRecommended == pc \in {"r_best", "r_done"}

\* the i-th smallest rank of a list of players (ranks may repeat)
IthBestRank(list, i) ==
    CHOOSE r \in RanksOf(list) :
        /\ Cardinality({ j \in DOMAIN list : list[j].rank < r }) < i
        /\ i <= Cardinality({ j \in DOMAIN list : list[j].rank <= r })

\* the i-th largest rank of a list of players
IthWorstRank(list, i) ==
    CHOOSE r \in RanksOf(list) :
        /\ Cardinality({ j \in DOMAIN list : list[j].rank > r }) < i
        /\ i <= Cardinality({ j \in DOMAIN list : list[j].rank >= r })

\* the user's resolved players and the free agents of a position
UsersAt(position) == { p \in Range(user_ros_players) : p.position = position }
FreeAt(position) == { p \in Range(free_agents) : p.position = position }

\* the best free agent of the position outranks the user's worst player
BestFreeOutranksWorst(position) ==
    /\ UsersAt(position) # {}
    /\ FreeAt(position) # {}
    /\ \E f \in FreeAt(position) : \E u \in UsersAt(position) : f.rank < u.rank

\* the recommendation drops a worst player of the user and adds a best
\* free agent of the position
DropsWorstAddsBest(r, position) ==
    /\ r.drop \in UsersAt(position)
    /\ \A u \in UsersAt(position) : u.rank <= r.drop.rank
    /\ r.add \in FreeAt(position)
    /\ \A f \in FreeAt(position) : r.add.rank <= f.rank
    /\ r.improvement = r.drop.rank - r.add.rank

\* the specification's example: free agents ranked 10 and 15, the user's
\* worst WR ranked 20
RosExample ==
    (/\ PositionsRecommended
     /\ { p.rank : p \in FreeAt("WR") } = {10, 15}
     /\ { p.rank : p \in UsersAt("WR") } = {20})
    => LET recs == recommendations.position_recommendations[3]
       IN  /\ Len(recs) = 1
           /\ recs[1].drop.rank = 20
           /\ recs[1].add.rank = 10
           /\ recs[1].improvement = 10

\* C13: for each position of QB, RB, WR, TE analyze_ros_recommendations
\* emits at most one recommendation; it emits one exactly when the user has
\* a resolved player and there is a free agent at the position and the best
\* free agent's rank is lower than the rank of the user's worst player; it
\* drops that worst player and adds that best free agent.
C13_OneSwapPerPosition ==
    /\ PositionsRecommended =>
          \A k \in DOMAIN RosPositions :
              LET recs == recommendations.position_recommendations[k]
              IN  /\ Len(recs) <= 1
                  /\ (recs # <<>>) = BestFreeOutranksWorst(RosPositions[k])
                  /\ \A r \in Range(recs) : DropsWorstAddsBest(r, RosPositions[k])
    /\ RosExample

\* the example's case: two free-agent WRs, ranked 10 and 15, the user's WR
\* ranked 20 and the recommendation of dropping it for the free agent ranked 10
C13_Witness ==
    /\ pc = "r_done"
    /\ { p.rank : p \in FreeAt("WR") } = {10, 15}
    /\ { p.rank : p \in UsersAt("WR") } = {20}
    /\ Len(recommendations.position_recommendations[3]) = 1
    /\ recommendations.position_recommendations[3][1].improvement = 10
    /\ recommendations.position_recommendations[2] = <<>>

\* C14: best_adds and worst_drops of analyze_ros_recommendations have the
\* same length n; best_adds[i] is the i-th best-ranked free agent and
\* worst_drops[i] the i-th worst-ranked player of the user; each listed pair
\* improves; n is the index of the first pair that does not improve, or the
\* length of the shorter list when every pair improves.
C14_BestValuePairs ==
    pc = "r_done" =>
        LET adds == recommendations.best_adds
            drops == recommendations.worst_drops
            n == Len(adds)
            pairs == Min2(Len(free_agents), Len(user_ros_players))
            improves(i) == IthBestRank(free_agents, i) < IthWorstRank(user_ros_players, i)
        IN  /\ Len(drops) = n
            /\ n <= pairs
            /\ \A i \in 1..n :
                  /\ adds[i] \in Range(free_agents)
                  /\ adds[i].rank = IthBestRank(free_agents, i)
                  /\ drops[i] \in Range(user_ros_players)
                  /\ drops[i].rank = IthWorstRank(user_ros_players, i)
                  /\ adds[i].rank < drops[i].rank
            /\ \A i, j \in 1..n : i # j => adds[i] # adds[j] /\ drops[i] # drops[j]
            /\ \A i \in 1..n : improves(i)
            /\ n < pairs => ~improves(n + 1)

\* one pair is listed and the second pair, which does not improve, ends the
\* list although both lists go on
C14_Witness ==
    /\ pc = "r_done"
    /\ Len(recommendations.best_adds) = 1
    /\ Len(free_agents) >= 2
    /\ Len(user_ros_players) >= 2

\* ------------------------------------------------------------------------
\* Properties of match_players
\* ------------------------------------------------------------------------

\* a call of match_players is under way or over
Matching == pc \in {"m_exact", "m_normalized", "m_fuzzy", "m_fallback", "m_done"}

\* the player as it was before match_players
Before(player) == [player EXCEPT !.sleeper_id = None]

\* what the first of the four strategies that produces an id produces, in
\* the order exact, normalized, fuzzy, fallback; None when none does
FirstSuccess(player) ==
    IF ExactMatch(player) # None THEN ExactMatch(player)
    ELSE IF NormalizedMatch(player) # None THEN NormalizedMatch(player)
    ELSE IF FuzzyMatch(player) # None THEN FuzzyMatch(player)
    ELSE FallbackMatch(player)

\* the players that no strategy matches, among the first n
RECURSIVE UnmatchedAmong(_, _)
UnmatchedAmong(players, n) ==
    IF n = 0 THEN <<>>
    ELSE UnmatchedAmong(players, n - 1)
         \o (IF FirstSuccess(Before(players[n])) = None
             THEN <<Before(players[n])>> ELSE <<>>)

\* C15: every player that match_players has dealt with carries the id of
\* the first strategy that succeeds for it, in the order exact, normalized,
\* fuzzy, fallback (so no later strategy has replaced it); a player for
\* which none succeeds carries no id and is listed as unmatched; a player
\* not yet dealt with, or whose strategies have all failed so far, carries
\* no id; and a strategy is tried only when the ones before it have failed.
C15_FirstSuccessWins ==
    Matching =>
        /\ \A i \in DOMAIN self_players :
              self_players[i].sleeper_id =
                  IF i < fp_index THEN FirstSuccess(Before(self_players[i])) ELSE None
        /\ unmatched_players = UnmatchedAmong(self_players, fp_index - 1)
        /\ matched_count = (fp_index - 1) - Len(unmatched_players)
        /\ pc = "m_normalized" => ExactMatch(fantasypros_player) = None
        /\ pc = "m_fuzzy" => NormalizedMatch(fantasypros_player) = None
        /\ pc = "m_fallback" => FuzzyMatch(fantasypros_player) = None
        /\ pc = "m_done" => fp_index = Len(self_players) + 1

\* A call is over in which one player took the id of the exact match
\* although the normalized match gives another, and one player is unmatched
C15_Witness ==
    /\ pc = "m_done"
    /\ \E i \in DOMAIN self_players :
          /\ self_players[i].sleeper_id = ExactMatch(Before(self_players[i]))
          /\ NormalizedMatch(Before(self_players[i])) \notin
                 {None, self_players[i].sleeper_id}
    /\ \E i \in DOMAIN self_players :
          /\ self_players[i].sleeper_id = None
          /\ self_players[i] \in Range(unmatched_players)

\* the best candidate of the fuzzy strategy for a player, as <<key, score>>
BestKeyOf(player) ==
    ExtractOneKey(Normalized(player.name), CandidatesMap(player.position))

\* the similarity of the first tokens of the player's normalized name and of
\* the best candidate
FirstTokenScoreOf(player) ==
    first_name_scores[Normalized(player.name)][BestKeyOf(player)[1]]

\* both scores of the best candidate reach their thresholds
ReachesThresholds(player) ==
    /\ BestKeyOf(player)[2] >= MatchThreshold
    /\ FirstTokenScoreOf(player) >= MatchFirstNameThreshold

\* the fuzzy strategy is tried for the player: the two before it fail
FuzzyTried(player) ==
    ExactMatch(player) = None /\ NormalizedMatch(player) = None

\* the ranked rows of the weekly analysis that reach its fuzzy branch: named
\* rows that match no roster player exactly or by normalized name, the
\* roster having candidates
WeeklyFuzzyRows ==
    { i \in DOMAIN op_rankings :
        /\ IsRow(op_rankings[i])
        /\ Stripped(op_rankings[i].name) # ""
        /\ Stripped(op_rankings[i].pos) # ""
        /\ \A id \in Range(user_players) :
              ~ExactOrNormalized(id, Stripped(op_rankings[i].name))
        /\ RosterCandidates(user_players) # <<>> }

\* the best roster candidate of a ranked row, as <<name, score>>
WeeklyBest(i) ==
    ExtractOne(Stripped(op_rankings[i].name), RosterCandidates(user_players))

\* the similarity of the first tokens of the two normalized names
WeeklyFirstTokenScore(i) ==
    ratios[FirstToken(Normalized(Stripped(op_rankings[i].name)))]
          [FirstToken(Normalized(WeeklyBest(i)[1]))]

\* C16: in match_players, a player for which the fuzzy strategy is tried
\* takes the id of its best candidate if the candidate's score is at least
\* 95 and the first tokens are similar to at least 85, and otherwise goes on
\* to the fallback; in the weekly analysis, a ranked row that reaches the
\* fuzzy branch becomes an entry of the user's roster, with the id of the
\* best candidate, exactly when the same two conditions hold.
C16_ThresholdsInclusive ==
    /\ Matching =>
          /\ \A i \in 1..(fp_index - 1) :
                FuzzyTried(Before(self_players[i])) =>
                    self_players[i].sleeper_id =
                        IF ReachesThresholds(Before(self_players[i]))
                        THEN DictGet(CandidatesMap(self_players[i].position),
                                     BestKeyOf(Before(self_players[i]))[1])
                        ELSE FallbackMatch(Before(self_players[i]))
          /\ pc = "m_fallback" => ~ReachesThresholds(fantasypros_player)
    /\ pc \notin {"start", "m_exact", "m_normalized", "m_fuzzy", "m_fallback", "m_done"} =>
          \A i \in WeeklyFuzzyRows :
              /\ (\E e \in Range(user_offensive_players) : e.rank = i)
                    <=> /\ WeeklyBest(i)[2] >= FuzzyThreshold
                        /\ WeeklyFirstTokenScore(i) >= FirstNameThreshold
              /\ \A e \in Range(user_offensive_players) :
                    e.rank = i =>
                        /\ sleeper_players[e.sleeper_id].full_name = WeeklyBest(i)[1]
                        /\ e.is_on_roster

\* A call of match_players is over in which a player whose best candidate
\* scores exactly 95, with first tokens at exactly 85, took the candidate's
\* id, and a player whose best candidate scores 95 with first tokens one
\* below 85 is unmatched
C16_Witness ==
    /\ pc = "m_done"
    /\ \E i \in DOMAIN self_players :
          /\ FuzzyTried(Before(self_players[i]))
          /\ BestKeyOf(Before(self_players[i]))[2] = MatchThreshold
          /\ FirstTokenScoreOf(Before(self_players[i])) = MatchFirstNameThreshold
          /\ self_players[i].sleeper_id = "81"
    /\ \E i \in DOMAIN self_players :
          /\ FuzzyTried(Before(self_players[i]))
          /\ BestKeyOf(Before(self_players[i]))[2] = MatchThreshold
          /\ FirstTokenScoreOf(Before(self_players[i])) = MatchFirstNameThreshold - 1
          /\ self_players[i].sleeper_id = None

\* the fallback is tried for the player: the three strategies before it fail
FallbackTried(player) ==
    /\ ExactMatch(player) = None
    /\ NormalizedMatch(player) = None
    /\ FuzzyMatch(player) = None

\* the directory entries with the player's normalized last name, team
\* abbreviation and position
Qualifying(player) ==
    { id \in Range(sleeper_ids) :
        /\ NormalizedLast(sleeper_players[id]) = LastToken(Normalized(player.name))
        /\ Upper(sleeper_players[id].team) = Upper(player.team)
        /\ Upper(sleeper_players[id].position) = Upper(player.position) }

\* the player has a last name, a team that is not the free-agent marker,
\* and a position
FallbackApplies(player) ==
    /\ LastToken(Normalized(player.name)) # <<>>
    /\ Upper(player.team) \notin {"", "FA"}
    /\ Upper(player.position) # ""

\* C17: a player left to the fallback of match_players is given an id
\* exactly when it has a last name, a team other than FA and a position,
\* and exactly one directory entry has that normalized last name, team and
\* position; the id is that entry's.  With no such entry, or with two or
\* more, the player has no id and is listed as unmatched.
C17_FallbackNeedsOneCandidate ==
    Matching =>
        \A i \in 1..(fp_index - 1) :
            FallbackTried(Before(self_players[i])) =>
                /\ self_players[i].sleeper_id # None
                      <=> /\ FallbackApplies(self_players[i])
                          /\ Cardinality(Qualifying(self_players[i])) = 1
                /\ self_players[i].sleeper_id # None
                      => self_players[i].sleeper_id \in Qualifying(self_players[i])
                /\ self_players[i].sleeper_id = None
                      => Before(self_players[i]) \in Range(unmatched_players)

\* A call is over in which the fallback found two entries for one player,
\* who is unmatched, and one entry for another, who has its id
C17_Witness ==
    /\ pc = "m_done"
    /\ \E i \in DOMAIN self_players :
          /\ FallbackTried(Before(self_players[i]))
          /\ FallbackApplies(self_players[i])
          /\ Cardinality(Qualifying(self_players[i])) = 2
          /\ self_players[i] \in Range(unmatched_players)
    /\ \E i \in DOMAIN self_players :
          /\ FallbackTried(Before(self_players[i]))
          /\ Qualifying(self_players[i]) = {self_players[i].sleeper_id}

\* ------------------------------------------------------------------------
\* Properties of _normalize_name
\* ------------------------------------------------------------------------

\* C18: when _normalize_name is called on a string it has returned, it
\* returns that string again; and it returns for every string.
C18_Idempotent ==
    /\ pc = "n_twice" => name_out = ReturnedString(name_arg.value)
    /\ pc = "n_raised" => name_arg.type # "str"

\* The second call has returned, on a string of two words
C18_Witness ==
    /\ pc = "n_twice"
    /\ Len(Split(name_arg.value)) = 2
    /\ name_out.kind = "returned"

\* lowercase alphanumeric tokens separated by single spaces, with no space
\* at either end, none of them a suffix word
WellFormed(chars) ==
    /\ Range(chars) \subseteq LowerChars \cup DigitChars \cup {" "}
    /\ chars = JoinSp(Split(chars))
    /\ \A i \in DOMAIN Split(chars) : Split(chars)[i] \notin SuffixTokens

\* the other case of a letter
SwapCase(c) ==
    IF c \in UpperChars \cup AccentedUpper THEN LowerChar(c)
    ELSE IF c \in LowerChars \cup AccentedLower THEN UpperChar(c)
    ELSE c

\* punctuation: neither letter, digit nor space
IsPunctuation(c) ==
    c \notin LowerChars \cup UpperChars \cup AccentedLower \cup AccentedUpper
             \cup DigitChars \cup SpaceChars

\* the string without its characters i..j
Without(chars, i, j) == SubSeq(chars, 1, i - 1) \o SubSeq(chars, j + 1, Len(chars))

\* characters i..j are a whole word of the string, and it is a suffix word in
\* some case
IsSuffixWord(chars, i, j) ==
    /\ i <= j
    /\ i = 1 \/ chars[i - 1] \in SpaceChars
    /\ j = Len(chars) \/ chars[j + 1] \in SpaceChars
    /\ MapLower(SubSeq(chars, i, j)) \in SuffixTokens

\* the names that differ from a name in the case of one letter
CaseChanged(chars) ==
    { [chars EXCEPT ![i] = SwapCase(chars[i])] : i \in DOMAIN chars }

\* the names that differ from a name in one punctuation character
PunctuationRemoved(chars) ==
    { Without(chars, i, i) : i \in { k \in DOMAIN chars : IsPunctuation(chars[k]) } }

\* the names that differ from a name in one suffix word
SuffixRemoved(chars) ==
    { Without(chars, span[1], span[2]) :
        span \in { sp \in (DOMAIN chars) \X (DOMAIN chars) :
                      IsSuffixWord(chars, sp[1], sp[2]) } }

\* the scenario: "Patrick Mahomes Jr." and "patrick mahomes" both give
\* "patrick mahomes"
ScenarioHolds ==
    \A chars \in ScenarioNames :
        name_arg = PyStr(chars) =>
            name_out.value = <<"p","a","t","r","i","c","k"," ","m","a","h","o","m","e","s">>

\* C19: what _normalize_name returns for a string consists of lowercase
\* alphanumeric tokens separated by single spaces, with no space at either
\* end and no token among jr, sr, ii, iii, iv, v; and a name that differs
\* from the argument in the case of a letter, in a punctuation character or
\* in a suffix word is normalized to the same string; the scenario holds.
C19_SameForRespellings ==
    (pc = "n_returned" /\ name_arg.type = "str") =>
        /\ WellFormed(name_out.value)
        /\ ScenarioHolds
        /\ \A other \in CaseChanged(name_arg.value)
                         \cup PunctuationRemoved(name_arg.value)
                         \cup SuffixRemoved(name_arg.value) :
              normalize_name(other) = name_out.value

\* C20: _normalize_name never raises, and for an argument that is empty,
\* None or not a string it returns the empty string.
C20_NeverRaises ==
    /\ pc # "n_raised"
    /\ (pc = "n_returned" /\ (name_arg.type # "str" \/ name_arg.value = <<>>))
          => name_out = ReturnedString(<<>>)

\* ------------------------------------------------------------------------
\* Properties of the reported lineup and of the returned lists
\* ------------------------------------------------------------------------

\* the place of a slot name in the declaration of roster_settings
DeclaredAt(slot) ==
    CHOOSE i \in DOMAIN roster_settings : roster_settings[i][1] = slot

\* the number of entries of a list that equal an entry
CountIn(list, entry) == Cardinality({ k \in DOMAIN list : list[k] = entry })

\* the reported list follows the declaration: slots in declared order, the
\* starters of one slot by ascending rank, and the same entries as the
\* allocated ones, each as often
FollowsDeclaration(reported, allocated) ==
    /\ \A i, j \in DOMAIN reported :
          i < j =>
              /\ \E k \in DOMAIN roster_settings :
                    roster_settings[k][1] = SlotOf(reported[i])
              /\ DeclaredAt(SlotOf(reported[i])) <= DeclaredAt(SlotOf(reported[j]))
              /\ SlotOf(reported[i]) = SlotOf(reported[j])
                    => reported[i].rank <= reported[j].rank
    /\ Len(reported) = Len(allocated)
    /\ \A e \in Range(allocated) \cup Range(reported) :
          CountIn(reported, e) = CountIn(allocated, e)

\* C23: the offensive starters that analyze_weekly_rankings reports are the
\* allocated starters, every one of them, in the order in which
\* roster_settings declares their slots; the starters of one slot name
\* follow one another by ascending rank, as many as the slot has filled.
C23_ReportedInDeclaredOrder ==
    /\ pc = "w_adddefk" => FollowsDeclaration(sorted_starters, starters)
    /\ WeeklyReturned => FollowsDeclaration(Offensive(analysis.starters), starters)

\* The analysis has returned; two starters share a slot and the reported
\* order is not the order of allocation
C23_Witness ==
    /\ WeeklyReturned
    /\ Offensive(analysis.starters) # starters
    /\ \E i, j \in DOMAIN starters :
          i # j /\ SlotOf(starters[i]) = SlotOf(starters[j])

\* the free agents of a list
FreeIn(list) == { p \in Range(list) : p.is_free_agent }

\* C24: the returned available_free_agents holds at most ten entries, every
\* one a free agent of the pool exactly as the pool holds it (no pairing
\* written on it), in ascending rank, and no free agent of the pool that is
\* left out is ranked better than one that is returned; the list is short of
\* ten only when the pool has no more free agents.
C24_TenBestFreeAgents ==
    pc = "done" =>
        LET available == result.available_free_agents
            free == FreeIn(all_available_players)
        IN  /\ Len(available) <= FreeAgentCap
            /\ Len(available) = Min2(FreeAgentCap, Cardinality(free))
            /\ \A i \in DOMAIN available :
                  /\ available[i] \in free
                  /\ available[i].replaces_player = <<>>
                  /\ available[i].flex_slot = None
            /\ \A i, j \in DOMAIN available : i < j => available[i].rank < available[j].rank
            /\ \A p \in free \ Range(available) :
                  \A i \in DOMAIN available : available[i].rank < p.rank

\* more than ten free agents in the pool, and one of the ten returned is the
\* added player of an upgrade
C24_Witness ==
    /\ pc = "done"
    /\ Cardinality(FreeIn(all_available_players)) > FreeAgentCap
    /\ Len(result.available_free_agents) = FreeAgentCap
    /\ \E u \in Range(result.free_agent_upgrades) :
          \E i \in DOMAIN result.available_free_agents :
              /\ result.available_free_agents[i].sleeper_id = u.add.sleeper_id
              /\ u.add.replaces_player # <<>>


\* the allocated slot names: the fixed ones and the flexible ones
FixedSlotNames == {"QB", "RB", "WR", "TE"}
FlexSlotNames == {"SUPER_FLEX", "FLEX", "WRRBTE_FLEX", "WRRB_FLEX"}

\* the slot has free capacity in a list of starters
FreeCapacity(sts, slot) ==
    StartersIn(sts, slot) < SettingsGet(roster_settings, slot)

\* no slot with free capacity has an eligible player left on the bench
NoEligibleLeft(sts, bn) ==
    /\ \A slot \in FixedSlotNames :
          FreeCapacity(sts, slot) => \A b \in Range(bn) : b.position # slot
    /\ \A slot \in FlexSlotNames :
          FreeCapacity(sts, slot)
              => \A b \in Range(bn) : b.position \notin FlexEligibility(slot)

\* C25: once the allocation of analyze_weekly_rankings, and that of
\* analyze_optimal_lineup_with_free_agents, has made its last pass, a fixed
\* slot P with free capacity leaves no player of base position P on the
\* bench, and a flexible slot with free capacity leaves no player on the
\* bench that is eligible for it.
C25_UnfilledOnlyWithoutEligible ==
    /\ pc \in {"w_sort", "w_adddefk"} => NoEligibleLeft(starters, bench)
    /\ WeeklyReturned => NoEligibleLeft(analysis.starters, analysis.bench)
    /\ pc \in {"o_adddefk", "o_upgrades", "done"} => NoEligibleLeft(optimal_starters, bench)
    /\ pc = "done" => NoEligibleLeft(result.optimal_starters, bench)

\* a slot with free capacity beside a bench that is not empty, in both
\* allocations, and a slot of several instances that is full
C25_Witness ==
    /\ pc = "done"
    /\ analysis.bench # <<>>
    /\ bench # <<>>
    /\ \E slot \in FixedSlotNames \cup FlexSlotNames : FreeCapacity(analysis.starters, slot)
    /\ \E slot \in FixedSlotNames \cup FlexSlotNames :
          FreeCapacity(result.optimal_starters, slot)
    /\ \E slot \in FixedSlotNames \cup FlexSlotNames :
          /\ StartersIn(result.optimal_starters, slot) > 1
          /\ ~FreeCapacity(result.optimal_starters, slot)

\* the pool holds an entry of the same id, rank and base position
PoolHolds(e) ==
    \E p \in Range(all_available_players) :
        /\ p.sleeper_id = e.sleeper_id
        /\ p.rank = e.rank
        /\ p.position = e.position

C26_AgreeingAreInPool ==
    PoolBuilt =>
        \A e \in Range(Offensive(analysis.starters)) \cup Range(analysis.bench) :
            e.position = sleeper_players[e.sleeper_id].position
                /\ e.position \notin {"DEF", "K"}
                => PoolHolds(e)

\* no two places of a list hold the same id
DistinctIds(list) ==
    \A i, j \in DOMAIN list : i # j => list[i].sleeper_id # list[j].sleeper_id

\* C27: in the analysis that analyze_weekly_rankings returns, no id occurs
\* twice across the offensive starters and the bench taken together.
C27_NoIdTwice ==
    WeeklyReturned => DistinctIds(Offensive(analysis.starters) \o analysis.bench)

\* the same, when no two ranked rows resolve to the same roster player
C27_NoIdTwiceOfDistinctRows ==
    WeeklyReturned =>
        \/ \E i, j \in DOMAIN op_rankings :
              /\ i # j
              /\ Resolves(i)
              /\ Resolves(j)
              /\ WeeklyMatch(user_players, Stripped(op_rankings[i].name))
                    = WeeklyMatch(user_players, Stripped(op_rankings[j].name))
        \/ DistinctIds(Offensive(analysis.starters) \o analysis.bench)

\* the free agents of analyze_ros_recommendations have been found
FreeAgentsFound == pc \in {"r_position", "r_best", "r_done"}

\* C28: in analyze_ros_recommendations no entry of free_agents has the id
\* of a player of the user's roster, whatever the ownership list is; so no
\* add of a position recommendation and no entry of best_adds has one, and
\* the add and the drop of a recommendation, and of a best-value pair, are
\* different players.
C28_NoOwnPlayerOffered ==
    /\ FreeAgentsFound =>
          \A f \in Range(free_agents) : f.player_id \notin Range(user_players)
    /\ pc = "r_done" =>
          /\ \A f \in Range(recommendations.free_agents) \cup Range(recommendations.best_adds) :
                f.player_id \notin Range(user_players)
          /\ \A k \in DOMAIN RosPositions :
                \A r \in Range(recommendations.position_recommendations[k]) :
                    /\ r.add.player_id \notin Range(user_players)
                    /\ r.add.player_id # r.drop.player_id
          /\ \A i \in DOMAIN recommendations.best_adds :
                recommendations.best_adds[i].player_id
                    # recommendations.worst_drops[i].player_id

\* the same, for the ownership lists that hold the user's roster
C28_NoOwnPlayerOfferedWhenListed ==
    Range(user_players) \subseteq Range(all_league_players) => C28_NoOwnPlayerOffered

\* the two lists as the loop of the best-value swaps goes over them
ScannedFree == SortByRank(free_agents)
ScannedUsers == SortByRankDescending(user_ros_players)
ScannedPairs == 1..Min2(Len(ScannedFree), Len(ScannedUsers))

\* pair i of the scan strictly improves
PairImproves(i) == ScannedFree[i].rank < ScannedUsers[i].rank

\* the indices of the pairs that improve, in ascending order
ImprovingPairs ==
    FilterSeq([i \in ScannedPairs |-> i], { i \in ScannedPairs : PairImproves(i) })

\* C29: the loop of best_adds and worst_drops, which ends at the first pair
\* that does not improve, returns what a scan of all the pairs returns: the
\* improving pairs, in order; after a pair that does not improve, no pair
\* improves.
C29_EarlyEndIsFullScan ==
    pc = "r_done" =>
        /\ recommendations.best_adds
              = [k \in DOMAIN ImprovingPairs |-> ScannedFree[ImprovingPairs[k]]]
        /\ recommendations.worst_drops
              = [k \in DOMAIN ImprovingPairs |-> ScannedUsers[ImprovingPairs[k]]]
        /\ \A i, j \in ScannedPairs : i < j /\ ~PairImproves(i) => ~PairImproves(j)

\* three pairs: the first improves, the second does not and ends the loop
\* with one pair left
C29_Witness ==
    /\ pc = "r_done"
    /\ Cardinality(ScannedPairs) = 3
    /\ Len(recommendations.best_adds) = 1
    /\ PairImproves(1)
    /\ ~PairImproves(2)
    /\ ScannedFree[3].rank > ScannedFree[2].rank

\* the DEF or K starter is the entry e, with its position set
StarterOf(s, e, kind) == [s EXCEPT !.is_waiver_wire = FALSE] = [e EXCEPT !.position = kind]

\* C30: in the lineup that analyze_weekly_rankings returns, a DEF or K
\* starter is flagged is_waiver_wire exactly when it is not an entry of the
\* user's roster: a flagged starter is an entry of the combined list that
\* is not on the roster, an unflagged one is the best entry of the roster
\* list, also when that entry heads the combined list.
C30_FlaggedIffNotOnRoster ==
    WeeklyReturned =>
        \A kind \in {"DEF", "K"} :
            \A s \in Range(StartersOfKind(kind)) :
                /\ s.is_waiver_wire = ~s.is_on_roster
                /\ s.is_on_roster =>
                      /\ s.sleeper_id \in Range(user_players)
                      /\ RosterListOf(kind) # <<>>
                      /\ StarterOf(s, RosterListOf(kind)[1], kind)
                /\ ~s.is_on_roster =>
                      /\ WaiverListOf(kind) # <<>>
                      /\ StarterOf(s, WaiverListOf(kind)[1], kind)
                      /\ \A e \in Range(RosterListOf(kind)) : ~StarterOf(s, e, kind)

\* the roster's kicker heads the combined list before a free agent and
\* starts unflagged, and a free-agent defense starts flagged although the
\* roster has a defense
C30_Witness ==
    /\ pc = "w_done"
    /\ \E s \in Range(StartersOfKind("K")) :
          /\ s.is_on_roster
          /\ ~s.is_waiver_wire
          /\ Len(analysis.waiver_kickers) >= 2
          /\ StarterOf(s, analysis.waiver_kickers[1], "K")
          /\ ~analysis.waiver_kickers[2].is_on_roster
    /\ \E s \in Range(StartersOfKind("DEF")) :
          /\ s.is_waiver_wire
          /\ analysis.defenses # <<>>

\* ------------------------------------------------------------------------
\* Properties of the handling of arguments of unexpected types
\* ------------------------------------------------------------------------

\* no list of weekly_rankings holds a row (a non-empty mapping); so it is
\* when weekly_rankings is no mapping
NoUsableRankings ==
    \A rankings \in {op_rankings, dst_rankings, k_rankings} :
        \A i \in DOMAIN rankings : ~IsRow(rankings[i])

\* the four lists of the analysis are empty
NothingReturned ==
    /\ analysis.starters = <<>>
    /\ analysis.bench = <<>>
    /\ analysis.defenses = <<>>
    /\ analysis.kickers = <<>>

\* the analysis holds no player of the roster: the starters are free-agent
\* kickers and defenses
NoRosterPlayerReturned ==
    /\ analysis.bench = <<>>
    /\ analysis.defenses = <<>>
    /\ analysis.kickers = <<>>
    /\ \A s \in Range(analysis.starters) :
          /\ s.position \in {"DEF", "K"}
          /\ s.is_waiver_wire
          /\ ~s.is_on_roster
    /\ \A kind \in {"DEF", "K"} :
          /\ Len(StartersOfKind(kind)) <= 1
          /\ StartersOfKind(kind) # <<>> => SettingsGet(roster_settings, kind) > 0

\* every entry of the analysis comes from a row of its list
EntriesFromRows ==
    /\ \A e \in Range(Offensive(analysis.starters)) \cup Range(analysis.bench) :
          e.rank \in DOMAIN op_rankings /\ IsRow(op_rankings[e.rank])
    /\ \A e \in Range(analysis.defenses) \cup Range(analysis.waiver_defenses) :
          e.rank \in DOMAIN dst_rankings /\ IsRow(dst_rankings[e.rank])
    /\ \A e \in Range(analysis.kickers) \cup Range(analysis.waiver_kickers) :
          e.rank \in DOMAIN k_rankings /\ IsRow(k_rankings[e.rank])

\* C21, as stated: analyze_weekly_rankings returns empty starters, bench,
\* defenses and kickers when no ranking is usable or the roster is empty.
C21_EmptyWithoutRankingsOrRoster ==
    WeeklyReturned /\ (NoUsableRankings \/ user_players = <<>>) => NothingReturned

\* C21, amended: analyze_weekly_rankings returns for arguments of every
\* type.  With no usable ranking its four lists are empty; with an empty
\* roster (user_players empty or no list) or a directory that is no mapping
\* it returns no roster player: bench, defenses and kickers are empty and the
\* starters are at most one free-agent kicker and one free-agent defense,
\* flagged is_waiver_wire, in slots that roster_settings declares; with a
\* roster_settings that is no mapping there is no starter; list elements
\* that are no rows yield no entry.
C21_DegradesToEmpty ==
    WeeklyReturned =>
        /\ NoUsableRankings => NothingReturned
        /\ user_players = <<>> => NoRosterPlayerReturned
        /\ arg_types.sleeper_players # "dict" => NoRosterPlayerReturned
        /\ arg_types.roster_settings # "dict" => analysis.starters = <<>>
        /\ arg_types.weekly_rankings # "dict" => NothingReturned
        /\ EntriesFromRows

\* a roster that is no list and a missing league: rows beside elements that
\* are no rows have been analysed and free agents start at K and DEF
C21_Witness ==
    /\ pc = "w_done"
    /\ arg_types.user_players = "None"
    /\ arg_types.all_league_players = "None"
    /\ \E i \in DOMAIN op_rankings : ~IsRow(op_rankings[i])
    /\ \E i \in DOMAIN op_rankings : IsRow(op_rankings[i])
    /\ StartersOfKind("K") # <<>>
    /\ StartersOfKind("DEF") # <<>>

\* C22: analyze_optimal_lineup_with_free_agents and
\* analyze_ros_recommendations return, and raise no exception, when
\* weekly_rankings is no mapping, user_players or all_league_players is no
\* list, or an entry of them has no player_id.
C22_ReturnWithoutRaising ==
    pc \notin {"o_raised", "r_raised"}

\* the same for arguments of the expected types whose entries all have a
\* player_id
C22_WellFormedReturn ==
    /\ arg_types = WellTyped
    /\ Lacking \notin Range(user_players) \cup Range(all_league_players)
    => pc \notin {"o_raised", "r_raised"}

====
